---- MODULE Spec2Model ----
(***************************************************************************)
(* Model of excel-typo-detector: the cross-file term consistency detector  *)
(* (src/src/mechanical_detector.py), the sheet-batched LLM reviewer        *)
(* (src/src/llm.py) and the result reconciler (src/main.py).               *)
(*                                                                         *)
(* Strings are sequences of characters.  A character is a TLA+ string; the *)
(* word "unknown" of create_llm_key and other multi-letter atoms ("A1",    *)
(* "B2") are written as one character each, ":" is the colon.  The Python  *)
(* object None is the value None below, which is no string over Chars.     *)
(* Confidences are scaled by 100 (0.90 is 90).                             *)
(***************************************************************************)
EXTENDS Integers, Sequences, FiniteSets, TLC

VARIABLES
    pc,                  \* position of the running operation
    mechanical_results,  \* main.py: first argument of _merge_detection_results
    llm_results,         \* main.py: second argument of _merge_detection_results
    merged_map,          \* main.py:244 the insertion-ordered dict
    idx,                 \* index of the loop in progress (1-based)
    merged,              \* the list returned by _merge_detection_results
    dictionary,          \* the content of dict/canonicals.yml, or NoFile
    canonical_rules,     \* MechanicalDetector.canonical_rules
    cells,               \* the corpus handed to detect_normalization_variants
    term_occurrences,    \* result of _collect_term_occurrences
    inconsistencies,     \* result of _detect_term_inconsistencies
    results,             \* result of detect_normalization_variants
    batch,               \* llm.py: the cells of the batch being parsed
    response,            \* llm.py: the response text of the service, decoded
    client,              \* LLMReviewer.client is set (an API key was found)
    sheet_groups,        \* review_all_cells: the sorted groups
    group_idx,           \* review_all_cells: position of the loop over the groups
    request_count,       \* LLMReviewer.request_count
    api_calls,           \* the batches sent to the text-generation service
    audit_log,           \* the entries written by _log_cell_batch_request
    all_responses,       \* review_all_cells: the findings collected so far
    call_returns,        \* what each call to the service gave: a text, or CallRaised
    provider,            \* config llm.provider
    llm_stats,           \* main.py:169 the result of get_review_statistics
    config_enabled,      \* config llm.enabled
    enable_llm,          \* main.py:129 the argument of process_files (not --no-llm)
    json_text,           \* llm.py:664 the argument of _repair_json
    repaired             \* what the calls of _repair_json returned, in call order

mergeVars == <<mechanical_results, llm_results, merged_map, idx, merged>>
detectVars == <<dictionary, canonical_rules, cells, term_occurrences,
                inconsistencies, results>>
parseVars == <<batch, response>>
reviewVars == <<client, sheet_groups, group_idx, request_count, api_calls,
                audit_log, all_responses, call_returns>>
runVars == <<provider, llm_stats, config_enabled, enable_llm>>
repairVars == <<json_text, repaired>>
vars == <<pc, mergeVars, detectVars, parseVars, reviewVars, runVars, repairVars>>

----------------------------------------------------------------------------
(* Values *)

None == <<"None">>

Colon == <<":">>

Range(s) == {s[i] : i \in DOMAIN s}

\* Python truthiness of an Optional[str]: None and "" are falsy
Truthy(s) == s # None /\ s # <<>>

\* dict/canonicals.yml does not exist
NoFile == [exists |-> FALSE, rules |-> <<>>]

\* dict/canonicals.yml with a list of rules
RulesFile(rules) == [exists |-> TRUE, rules |-> rules]

\* the reconciler is not running
MergeIdle ==
    /\ mechanical_results = <<>>
    /\ llm_results = <<>>
    /\ merged_map = <<>>
    /\ idx = 1
    /\ merged = <<>>

\* a response without a JSON-looking substring
NoJson == [kind |-> "no_json", items |-> <<>>]

\* no batch is being parsed
ParseIdle ==
    /\ batch = <<>>
    /\ response = NoJson

\* no review is running
ReviewIdle ==
    /\ client = FALSE
    /\ sheet_groups = <<>>
    /\ group_idx = 1
    /\ request_count = 0
    /\ api_calls = <<>>
    /\ audit_log = <<>>
    /\ all_responses = <<>>
    /\ call_returns = <<>>

\* llm_stats before get_review_statistics has run, and the {} it returns
\* for an empty list of findings (llm.py:753-754, main.py:163)
NoStats == [empty |-> TRUE]

\* process_files is not running; no text is being repaired
RunIdle ==
    /\ provider = "anthropic"
    /\ llm_stats = NoStats
    /\ config_enabled = TRUE
    /\ enable_llm = TRUE
    /\ json_text = <<>>
    /\ repaired = <<>>

\* the detector is not running
DetectIdle ==
    /\ dictionary = NoFile
    /\ canonical_rules = <<>>
    /\ cells = <<>>
    /\ term_occurrences = <<>>
    /\ inconsistencies = <<>>
    /\ results = <<>>

----------------------------------------------------------------------------
(* src/src/extract.py : CellData *)

CellData(file_name, sheet_name, cell_address, row, column, text) ==
    [file_name |-> file_name, sheet_name |-> sheet_name,
     cell_address |-> cell_address, row |-> row, column |-> column,
     text |-> text]

----------------------------------------------------------------------------
(* src/src/mechanical_detector.py : DetectionResult (a mechanical finding) *)

MechanicalResult(cell, original, suggested_fix, issue_type, reason, confidence, canonical) ==
    [file_name |-> cell.file_name, sheet_name |-> cell.sheet_name,
     cell_address |-> cell.cell_address, row |-> cell.row, column |-> cell.column,
     original |-> original, suggested_fix |-> suggested_fix,
     issue_type |-> issue_type, reason |-> reason,
     confidence |-> confidence, canonical |-> canonical]

(* src/src/llm.py : DetectionResult (the back-reference of a model finding) *)
NoDetection == [absent |-> TRUE]

FakeDetection(cell, issue_enum, suggested_fix, canonical, confidence) ==
    [cell_data |-> cell, issue_type |-> issue_enum, original |-> cell.text,
     suggested_fix |-> suggested_fix, canonical |-> canonical,
     confidence |-> confidence, context |-> cell.text]

(* src/src/llm.py : LLMReviewResponse (a model finding) *)
LLMReviewResponse(issue_type, original, suggested_fix, canonical, reason, confidence, source_detection) ==
    [issue_type |-> issue_type, original |-> original,
     suggested_fix |-> suggested_fix, canonical |-> canonical,
     reason |-> reason, confidence |-> confidence,
     source_detection |-> source_detection]

----------------------------------------------------------------------------
(* Characters.  ASCII names stand for the Japanese characters. *)

Hiragana == {"no"}                                   \* [ぁ-ん]
Katakana == {"yu", "za", "de", "ta", "be", "su"}     \* [ァ-ヶ]
HalfKatakana == {"h_yu", "h_za"}                     \* [ｦ-ﾟ]
Kanji == {"kan", "ri"}                               \* [一-龯]
LowerLatin == {"d", "b"}
UpperLatin == {"D", "B"}
Digits == {"1"}
Chouon == "chouon"                                   \* ー
Nakaguro == "nakaguro"                               \* ・
Whitespace == {" ", "\n"}

Alnum == LowerLatin \cup UpperLatin \cup Digits      \* [a-zA-Z0-9]

\* mechanical_detector.py:179 the class of the whole-text pattern
WholeTextClass ==
    Hiragana \cup Katakana \cup HalfKatakana \cup Kanji \cup Alnum
        \cup {Nakaguro, "-", "_", Chouon}

\* mechanical_detector.py:184-190 the five component patterns, in order
ComponentClasses ==
    <<Hiragana, Katakana \cup {Chouon}, HalfKatakana, Kanji, Alnum>>

\* str.lower() on one character
LowerChar(c) == IF c = "D" THEN "d" ELSE IF c = "B" THEN "b" ELSE c

\* str.lower()
Lower(s) == [i \in DOMAIN s |-> LowerChar(s[i])]

RECURSIVE LStrip(_)
LStrip(s) == IF s # <<>> /\ Head(s) \in Whitespace THEN LStrip(Tail(s)) ELSE s

RECURSIVE RStrip(_)
RStrip(s) ==
    IF s # <<>> /\ s[Len(s)] \in Whitespace
    THEN RStrip(SubSeq(s, 1, Len(s) - 1)) ELSE s

\* str.strip()
Strip(s) == RStrip(LStrip(s))

\* length of the longest prefix of s made of characters of class
RECURSIVE PrefixLen(_, _)
PrefixLen(s, class) ==
    IF s # <<>> /\ Head(s) \in class THEN 1 + PrefixLen(Tail(s), class) ELSE 0

\* re.findall(r'[class]+', s): the maximal runs, left to right
RECURSIVE FindAll(_, _)
FindAll(s, class) ==
    IF s = <<>> THEN <<>>
    ELSE LET n == PrefixLen(s, class)
         IN  IF n = 0 THEN FindAll(Tail(s), class)
             ELSE <<SubSeq(s, 1, n)>> \o FindAll(SubSeq(s, n + 1, Len(s)), class)

\* re.match(r'[...]+$', s)
MatchesWhole(s) == s # <<>> /\ \A i \in DOMAIN s : s[i] \in WholeTextClass

RECURSIVE Flatten(_)
Flatten(ss) == IF ss = <<>> THEN <<>> ELSE Head(ss) \o Flatten(Tail(ss))

----------------------------------------------------------------------------
(* Insertion-ordered dicts: sequences of [key, value] entries *)

\* `key in d`
HasKey(m, key) == \E i \in DOMAIN m : m[i].key = key

\* `d[key]` for a key that is present
MapGet(m, key) == m[CHOOSE i \in DOMAIN m : m[i].key = key].value

\* the buggy variant: every assignment appends a new entry
MapSetAppend(m, key, value) == Append(m, [key |-> key, value |-> value])

\* the buggy variant: an overwritten key moves to the end
MapSetMoveToEnd(m, key, value) ==
    Append(SelectSeq(m, LAMBDA e : e.key # key), [key |-> key, value |-> value])

\* `d[key] = value`: a present key keeps its position, a new key goes to
\* the end
MapSet(m, key, value) ==
    IF HasKey(m, key)
    THEN [i \in DOMAIN m |-> IF m[i].key = key
                             THEN [key |-> key, value |-> value] ELSE m[i]]
    ELSE Append(m, [key |-> key, value |-> value])

\* `d[key].append(item)` on a defaultdict(list)
MapAppend(m, key, item) ==
    MapSet(m, key, IF HasKey(m, key) THEN Append(MapGet(m, key), item) ELSE <<item>>)

\* `list(d.values())`
MapValues(m) == [i \in DOMAIN m |-> m[i].value]

\* `list(d.keys())`
MapKeys(m) == [i \in DOMAIN m |-> m[i].key]

----------------------------------------------------------------------------
(* src/src/mechanical_detector.py : MechanicalDetector *)

Rule(expected, patterns) == [expected |-> expected, patterns |-> patterns]

\* mechanical_detector.py:88-89 the patterns of one rule
RECURSIVE AddPatterns(_, _, _)
AddPatterns(m, patterns, expected) ==
    IF patterns = <<>> THEN m
    ELSE AddPatterns(MapSet(m, Lower(Head(patterns)), expected),
                     Tail(patterns), expected)

\* mechanical_detector.py:80-89 the loop over the rules
RECURSIVE AddRules(_, _)
AddRules(m, rules) ==
    IF rules = <<>> THEN m
    ELSE AddRules(AddPatterns(MapSet(m, Lower(Head(rules).expected), Head(rules).expected),
                              Head(rules).patterns, Head(rules).expected),
                  Tail(rules))

\* mechanical_detector.py:70-98
load_canonical_rules(file) == IF file.exists THEN AddRules(<<>>, file.rules) ELSE <<>>

\* the buggy variant: the whole text comes after its components
extract_terms_whole_last(text) ==
    Flatten([k \in DOMAIN ComponentClasses |->
                SelectSeq(FindAll(text, ComponentClasses[k]),
                          LAMBDA component : Len(component) >= 2)])
    \o (IF MatchesWhole(Strip(text)) THEN <<Strip(text)>> ELSE <<>>)

\* mechanical_detector.py:170-202
extract_terms(text) ==
    (IF MatchesWhole(Strip(text)) THEN <<Strip(text)>> ELSE <<>>)
    \o Flatten([k \in DOMAIN ComponentClasses |->
                   SelectSeq(FindAll(text, ComponentClasses[k]),
                             LAMBDA component : Len(component) >= 2)])

TermOccurrence(cell, term) ==
    [file_name |-> cell.file_name, sheet_name |-> cell.sheet_name,
     cell_address |-> cell.cell_address, row |-> cell.row,
     column |-> cell.column, original_text |-> term]

\* the buggy variant: the key of a term is its lower-cased spelling
RECURSIVE AddTermsLowerKey(_, _, _)
AddTermsLowerKey(m, cell, terms) ==
    IF terms = <<>> THEN m
    ELSE IF Len(Strip(Head(terms))) < 2
         THEN AddTermsLowerKey(m, cell, Tail(terms))
         ELSE AddTermsLowerKey(MapAppend(m, Lower(Head(terms)),
                                         TermOccurrence(cell, Head(terms))),
                               cell, Tail(terms))

\* mechanical_detector.py:137-153 the terms of one cell
RECURSIVE AddTerms(_, _, _)
AddTerms(m, cell, terms) ==
    IF terms = <<>> THEN m
    ELSE IF Len(Strip(Head(terms))) < 2
         THEN AddTerms(m, cell, Tail(terms))
         ELSE AddTerms(MapAppend(m, Head(terms), TermOccurrence(cell, Head(terms))),
                       cell, Tail(terms))

\* mechanical_detector.py:128-153 the loop over the cells
RECURSIVE AddCells(_, _)
AddCells(m, cs) ==
    IF cs = <<>> THEN m
    ELSE IF Head(cs).text = <<>> \/ Strip(Head(cs).text) = <<>>
         THEN AddCells(m, Tail(cs))
         ELSE AddCells(AddTerms(m, Head(cs), extract_terms(Head(cs).text)), Tail(cs))

\* the buggy variant: the terms with a single occurrence are kept
collect_term_occurrences_unfiltered(cs) == AddCells(<<>>, cs)

\* mechanical_detector.py:124-168
collect_term_occurrences(cs) ==
    SelectSeq(AddCells(<<>>, cs), LAMBDA e : Len(e.value) > 1)

\* mechanical_detector.py:210-212
RECURSIVE GroupVariants(_, _)
GroupVariants(m, occurrences) ==
    IF occurrences = <<>> THEN m
    ELSE GroupVariants(MapAppend(m, Head(occurrences).original_text, Head(occurrences)),
                       Tail(occurrences))

\* mechanical_detector.py:227-232 the loop over the variants
RECURSIVE VariantCanonical(_, _)
VariantCanonical(rules, variant_list) ==
    IF variant_list = <<>> THEN None
    ELSE IF HasKey(rules, Head(variant_list))
         THEN MapGet(rules, Head(variant_list))
         ELSE IF HasKey(rules, Lower(Head(variant_list)))
              THEN MapGet(rules, Lower(Head(variant_list)))
              ELSE VariantCanonical(rules, Tail(variant_list))

\* mechanical_detector.py:224-238; the loop returns at its first hit
get_canonical_form(rules, term, variant_list) ==
    IF \E i \in DOMAIN variant_list :
           HasKey(rules, variant_list[i]) \/ HasKey(rules, Lower(variant_list[i]))
    THEN VariantCanonical(rules, variant_list)
    ELSE IF HasKey(rules, term) THEN MapGet(rules, term) ELSE None

\* the buggy variant: a term with a single spelling also gives a group
RECURSIVE DetectFromAny(_, _, _)
DetectFromAny(m, rules, occs) ==
    IF occs = <<>> THEN m
    ELSE LET term == Head(occs).key
             variants == GroupVariants(<<>>, Head(occs).value)
         IN  DetectFromAny(
                 MapSet(m, term,
                        [variants |-> variants,
                         canonical |-> get_canonical_form(rules, term, MapKeys(variants))]),
                 rules, Tail(occs))

\* mechanical_detector.py:204-222
RECURSIVE DetectFrom(_, _, _)
DetectFrom(m, rules, occs) ==
    IF occs = <<>> THEN m
    ELSE LET term == Head(occs).key
             variants == GroupVariants(<<>>, Head(occs).value)
         IN  IF Len(variants) > 1
             THEN DetectFrom(
                      MapSet(m, term,
                             [variants |-> variants,
                              canonical |-> get_canonical_form(rules, term, MapKeys(variants))]),
                      rules, Tail(occs))
             ELSE DetectFrom(m, rules, Tail(occs))

detect_term_inconsistencies(rules, occs) == DetectFrom(<<>>, rules, occs)

\* f"{occ.file_name}:{occ.sheet_name}:{occ.cell_address}({variant_text})"
LocationText(occ, variant_text) ==
    occ.file_name \o Colon \o occ.sheet_name \o Colon \o occ.cell_address
        \o <<"(">> \o variant_text \o <<")">>

\* the buggy variant: the occurrences equal to the canonical are reported too
CanonicalResultsAll(variants, canonical) ==
    Flatten([v \in DOMAIN variants |->
        [o \in DOMAIN variants[v].value |->
            MechanicalResult(variants[v].value[o], variants[v].key, canonical,
                             "variant",
                             [template |-> "unify", canonical |-> canonical],
                             90, canonical)]])

\* mechanical_detector.py:250-266 one finding per occurrence off the canonical
CanonicalResults(variants, canonical) ==
    Flatten([v \in DOMAIN variants |->
        IF variants[v].key # canonical
        THEN [o \in DOMAIN variants[v].value |->
                 MechanicalResult(variants[v].value[o], variants[v].key, canonical,
                                  "variant",
                                  [template |-> "unify", canonical |-> canonical],
                                  90, canonical)]
        ELSE <<>>])

\* the buggy variant: the finding is anchored at the last variant
UnresolvedResultLast(variants) ==
    LET last_variant == variants[Len(variants)].key
        last_occurrence == variants[Len(variants)].value[1]
    IN  MechanicalResult(last_occurrence, last_variant, None, "variant",
                         [template |-> "inconsistent", locations |-> <<>>, total |-> 0],
                         85, None)

\* mechanical_detector.py:270-296 one finding at the first occurrence; the
\* reason lists the first five locations and the total when there are more
UnresolvedResult(variants) ==
    LET first_variant == variants[1].key
        first_occurrence == variants[1].value[1]
        locations == Flatten([v \in DOMAIN variants |->
                        [o \in DOMAIN variants[v].value |->
                            LocationText(variants[v].value[o], variants[v].key)]])
    IN  MechanicalResult(first_occurrence, first_variant, None, "variant",
                         [template |-> "inconsistent",
                          locations |-> SubSeq(locations, 1, IF Len(locations) > 5 THEN 5
                                                             ELSE Len(locations)),
                          total |-> IF Len(locations) > 5 THEN Len(locations) ELSE 0],
                         85, None)

\* mechanical_detector.py:240-298
generate_detection_results(incs) ==
    Flatten([t \in DOMAIN incs |->
        IF Truthy(incs[t].value.canonical)
        THEN CanonicalResults(incs[t].value.variants, incs[t].value.canonical)
        ELSE <<UnresolvedResult(incs[t].value.variants)>>])

\* mechanical_detector.py:65-68 MechanicalDetector.__init__
DetectorInit ==
    /\ pc = "detector_new"
    /\ canonical_rules' = load_canonical_rules(dictionary)
    /\ pc' = "collect"
    /\ UNCHANGED <<mergeVars, parseVars, reviewVars, dictionary, cells, term_occurrences, inconsistencies, results, runVars, repairVars>>

\* mechanical_detector.py:113
CollectTermOccurrences ==
    /\ pc = "collect"
    /\ term_occurrences' = collect_term_occurrences(cells)
    /\ pc' = "detect"
    /\ UNCHANGED <<mergeVars, parseVars, reviewVars, dictionary, canonical_rules, cells, inconsistencies, results, runVars, repairVars>>

\* mechanical_detector.py:116
DetectTermInconsistencies ==
    /\ pc = "detect"
    /\ inconsistencies' = detect_term_inconsistencies(canonical_rules, term_occurrences)
    /\ pc' = "generate"
    /\ UNCHANGED <<mergeVars, parseVars, reviewVars, dictionary, canonical_rules, cells, term_occurrences, results, runVars, repairVars>>

\* mechanical_detector.py:119-122
GenerateDetectionResults ==
    /\ pc = "generate"
    /\ results' = generate_detection_results(inconsistencies)
    /\ pc' = "detect_done"
    /\ UNCHANGED <<mergeVars, parseVars, reviewVars, dictionary, canonical_rules, cells, term_occurrences,
                   inconsistencies, runVars, repairVars>>

DetectNext ==
    \/ DetectorInit
    \/ CollectTermOccurrences
    \/ DetectTermInconsistencies
    \/ GenerateDetectionResults

----------------------------------------------------------------------------
(* The detector on bounded corpora *)

MaxCells == 2

\* the places of the corpus cells, in corpus order: two documents
Places ==
    <<[file_name |-> <<"docA">>, sheet_name |-> <<"S1">>, cell_address |-> <<"A1">>,
       row |-> 1, column |-> 1],
      [file_name |-> <<"docB">>, sheet_name |-> <<"S1">>, cell_address |-> <<"A1">>,
       row |-> 1, column |-> 1],
      [file_name |-> <<"docA">>, sheet_name |-> <<"S1">>, cell_address |-> <<"A2">>,
       row |-> 2, column |-> 1]>>

PlaceOf(k) == Places[((k - 1) % Len(Places)) + 1]

YUUZA == <<"yu", "chouon", "za">>                                \* ユーザ
YUUZAA == <<"yu", "chouon", "za", "chouon">>                     \* ユーザー
DEETABEESU == <<"de", "chouon", "ta", "be", "chouon", "su">>     \* データベース
DEETA_BEESU == <<"de", "chouon", "ta", "nakaguro", "be", "chouon", "su">>  \* データ・ベース

CorpusTexts ==
    {YUUZA, YUUZAA, DEETABEESU, DEETA_BEESU,
     YUUZA \o <<"kan", "ri">>,            \* ユーザ管理
     <<"h_yu", "h_za">> \o <<"no">>,      \* ﾕｻﾞの
     <<" ", "D", "B", " ">>,
     <<"d", "b">>,
     <<"d", "b", "_", "d", "b">>,
     <<"d", "b", "-", "1">>,
     <<"D">>,
     <<" ">>}

Dictionaries ==
    {NoFile,
     RulesFile(<<Rule(YUUZAA, <<YUUZA>>)>>),
     RulesFile(<<Rule(DEETABEESU, <<DEETA_BEESU>>)>>),
     RulesFile(<<Rule(<<"D", "B">>, <<<<"D", "b">>>>),
                 Rule(YUUZAA, <<YUUZA, <<"h_yu", "h_za">>>>)>>)}

Corpora ==
    UNION {{[k \in 1..n |-> CellData(PlaceOf(k).file_name, PlaceOf(k).sheet_name,
                                      PlaceOf(k).cell_address, PlaceOf(k).row,
                                      PlaceOf(k).column, texts[k])] :
               texts \in [1..n -> CorpusTexts]} : n \in 0..MaxCells}

DetectInit ==
    /\ pc = "detector_new"
    /\ dictionary \in Dictionaries
    /\ cells \in Corpora
    /\ canonical_rules = <<>>
    /\ term_occurrences = <<>>
    /\ inconsistencies = <<>>
    /\ results = <<>>
    /\ MergeIdle
    /\ ParseIdle
    /\ ReviewIdle
    /\ RunIdle

SpecDetect == DetectInit /\ [][DetectNext]_vars

\* the patterns of the loaded dictionary with the canonical they map to
PatternPairs ==
    UNION {{<<dictionary.rules[r].patterns[p], dictionary.rules[r].expected>> :
               p \in DOMAIN dictionary.rules[r].patterns} : r \in DOMAIN dictionary.rules}

\* the words the dictionary knows
DictionaryWords ==
    {pair[1] : pair \in PatternPairs} \cup {pair[2] : pair \in PatternPairs}

\* s without its middle dots
Undotted(s) == SelectSeq(s, LAMBDA c : c # Nakaguro)

\* C1: for a corpus of two cells in different documents whose texts are a
\* dictionary pattern P and its canonical C, P # C, the detector returns
\* exactly one finding: at the cell of P, original P, suggested_fix C,
\* kind variant, confidence 0.90.
C1_Scenario1 ==
    pc = "detect_done" =>
        \A i, j \in DOMAIN cells : \A pair \in PatternPairs :
            ( /\ Len(cells) = 2
              /\ cells[i].file_name # cells[j].file_name
              /\ cells[i].text = pair[1] /\ cells[j].text = pair[2]
              /\ pair[1] # pair[2] )
            => /\ Len(results) = 1
               /\ results[1].file_name = cells[i].file_name
               /\ results[1].sheet_name = cells[i].sheet_name
               /\ results[1].cell_address = cells[i].cell_address
               /\ results[1].original = pair[1]
               /\ results[1].suggested_fix = pair[2]
               /\ results[1].issue_type = "variant"
               /\ results[1].confidence = 90

\* C2: for a corpus of two cells whose texts are two spellings of one term
\* (equal up to the middle dot) that the dictionary does not know, the
\* detector returns exactly one finding, without suggested_fix, whose reason
\* lists the places of both cells.
C2_Scenario2 ==
    ( /\ pc = "detect_done"
      /\ Len(cells) = 2
      /\ cells[1].text # cells[2].text
      /\ Undotted(cells[1].text) = Undotted(cells[2].text)
      /\ \A k \in DOMAIN cells : cells[k].text \notin DictionaryWords )
        => /\ Len(results) = 1
           /\ results[1].suggested_fix = None
           /\ \A k \in DOMAIN cells :
                \E l \in DOMAIN results[1].reason.locations :
                    results[1].reason.locations[l] = LocationText(cells[k], cells[k].text)

----------------------------------------------------------------------------
(* src/src/llm.py : LLMReviewer._parse_cell_batch_response *)

\* a response whose JSON text cannot be decoded even after _repair_json
BadJson == [kind |-> "bad_json", items |-> <<>>]

\* a response that decodes to a list of objects
JsonItems(items) == [kind |-> "items", items |-> items]

\* a response whose JSON text decodes to a value that cannot be iterated
\* (a number inside a ```json fence)
NotIterable == [kind |-> "not_iterable", items |-> <<>>]

\* JSON values of the "confidence" field: a number (scaled by 100), a
\* string, null
JNum(n) == [num |-> n]
JStr(s) == [str |-> s]
JNull == [null |-> TRUE]

\* an element of the decoded list that is no object (a number)
NotAnObject == [scalar |-> 1]

\* one object of the decoded list, with any JSON value as its confidence
RawItem(item_index, issue_type, original, suggested_fix, canonical, confidence) ==
    [item_index |-> item_index, issue_type |-> issue_type, original |-> original,
     suggested_fix |-> suggested_fix, canonical |-> canonical,
     confidence |-> confidence]

\* one object of the decoded list with a numeric confidence
Item(item_index, issue_type, original, suggested_fix, canonical, confidence) ==
    RawItem(item_index, issue_type, original, suggested_fix, canonical, JNum(confidence))

\* dict.get(field, default)
ItemGet(item, field, default) == IF field \in DOMAIN item THEN item[field] ELSE default

DigitChars == {"0", "1", "2", "3", "4", "5", "6", "7", "8", "9"}

DigitVal(c) ==
    CASE c = "0" -> 0 [] c = "1" -> 1 [] c = "2" -> 2 [] c = "3" -> 3 [] c = "4" -> 4
      [] c = "5" -> 5 [] c = "6" -> 6 [] c = "7" -> 7 [] c = "8" -> 8 [] c = "9" -> 9

\* the texts "d.d" that float() converts
IsDecimalText(s) ==
    Len(s) = 3 /\ s[1] \in DigitChars /\ s[2] = "." /\ s[3] \in DigitChars

\* llm.py:1059 float(x), scaled by 100; defined when FloatError(x) = "none"
Float(x) ==
    IF "num" \in DOMAIN x THEN x.num
    ELSE 100 * DigitVal(x.str[1]) + 10 * DigitVal(x.str[3])

\* llm.py:1059 the exception float(x) raises
FloatError(x) ==
    IF "num" \in DOMAIN x THEN "none"
    ELSE IF "null" \in DOMAIN x THEN "TypeError"
    ELSE IF IsDecimalText(x.str) THEN "none" ELSE "ValueError"

\* llm.py:1057-1059 the exception the head of the loop body raises
ItemError(item) ==
    IF "scalar" \in DOMAIN item THEN "AttributeError"
    ELSE FloatError(ItemGet(item, "confidence", JNum(0)))

\* llm.py:1056 the first exception raised in the loop over the items
RECURSIVE FirstError(_)
FirstError(items) ==
    IF items = <<>> THEN "none"
    ELSE IF ItemError(Head(items)) # "none" THEN ItemError(Head(items))
    ELSE FirstError(Tail(items))

\* llm.py:1042-1103 the exception raised in the try block
parse_error(resp) ==
    CASE resp.kind = "no_json" -> "none"
      [] resp.kind = "bad_json" -> "JSONDecodeError"
      [] resp.kind = "not_iterable" -> "TypeError"
      [] resp.kind = "items" -> FirstError(resp.items)

\* llm.py:1108 except (json.JSONDecodeError, KeyError, ValueError, IndexError)
CaughtByParser == {"JSONDecodeError", "KeyError", "ValueError", "IndexError"}

\* _parse_cell_batch_response lets the exception out to its caller
ParseRaises(resp) == parse_error(resp) \notin (CaughtByParser \cup {"none"})

\* llm.py:1062 the literal 0.7
MinConfidence == 70

\* the buggy variant: the confidence of the item is not looked at
NeedsFixAnyConfidence(item, cs) ==
    /\ ItemGet(item, "issue_type", "none") \in {"typo", "variant"}
    /\ 0 <= ItemGet(item, "item_index", 1) - 1
    /\ ItemGet(item, "item_index", 1) - 1 < Len(cs)

\* llm.py:1057-1062
NeedsFix(item, cs) ==
    /\ ItemGet(item, "issue_type", "none") \in {"typo", "variant"}
    /\ Float(ItemGet(item, "confidence", JNum(0))) >= MinConfidence
    /\ 0 <= ItemGet(item, "item_index", 1) - 1
    /\ ItemGet(item, "item_index", 1) - 1 < Len(cs)

\* the buggy variant: every kept item is reported as a variant
final_issue_type_variant(canonical, issue_type) == "variant"

\* the buggy variant: the canonical of the item is not looked at
final_issue_type_reported(canonical, issue_type) == issue_type

\* llm.py:1073
final_issue_type(canonical, issue_type) ==
    IF Truthy(canonical) THEN "variant" ELSE issue_type

\* llm.py:1074
final_issue_enum(canonical) == IF Truthy(canonical) THEN "VARIANT" ELSE "TYPO"

\* llm.py:1063-1098
ItemResponse(item, cs) ==
    LET original == ItemGet(item, "original", <<>>)
        suggested_fix == ItemGet(item, "suggested_fix", <<>>)
        canonical == ItemGet(item, "canonical", None)
        confidence == Float(ItemGet(item, "confidence", JNum(0)))
    IN  LLMReviewResponse(final_issue_type(canonical, ItemGet(item, "issue_type", "none")),
                          original, suggested_fix, canonical,
                          <<"r">>, confidence,
                          FakeDetection(cs[ItemGet(item, "item_index", 1)],
                                        final_issue_enum(canonical),
                                        suggested_fix, canonical, confidence))

\* llm.py:1055-1103 the loop over the decoded items, none of which raises
RECURSIVE ParseItems(_, _)
ParseItems(items, cs) ==
    IF items = <<>> THEN <<>>
    ELSE IF /\ NeedsFix(Head(items), cs)
            /\ ItemGet(Head(items), "original", <<>>)
                 # ItemGet(Head(items), "suggested_fix", <<>>)
         THEN <<ItemResponse(Head(items), cs)>> \o ParseItems(Tail(items), cs)
         ELSE ParseItems(Tail(items), cs)

\* llm.py:1031-1119 the list returned when no exception gets out
parse_cell_batch_response(resp, cs) ==
    IF resp.kind = "items" /\ parse_error(resp) = "none"
    THEN ParseItems(resp.items, cs) ELSE <<>>

\* llm.py:811-818 what _call_llm_for_cells returns for a response text: the
\* parsed findings, or [] from its own handler when the parser raises
call_result(resp, cs) ==
    IF ParseRaises(resp) THEN <<>> ELSE parse_cell_batch_response(resp, cs)

\* llm.py:811 followed by main.py:180; the findings of the batch are the
\* model stream of the reconciler
ParseCellBatchResponse ==
    /\ pc = "parse"
    /\ llm_results' = call_result(response, batch)
    /\ pc' = "merge_mech"
    /\ UNCHANGED <<mechanical_results, merged_map, idx, merged, detectVars, parseVars, reviewVars, runVars, repairVars>>

----------------------------------------------------------------------------
(* src/src/llm.py : LLMReviewer.review_all_cells *)

\* llm.py:302 `cell.text and len(cell.text.strip()) >= 2`
IsValidCell(cell) == cell.text # <<>> /\ Len(Strip(cell.text)) >= 2

\* the buggy variant: the groups are keyed by the sheet name alone
sheet_key_sheet_only(cell) == cell.sheet_name

\* llm.py:344 f"{cell.file_name}:{cell.sheet_name}"
sheet_key(cell) == cell.file_name \o Colon \o cell.sheet_name

\* llm.py:342-345
RECURSIVE GroupCells(_, _)
GroupCells(m, cs) ==
    IF cs = <<>> THEN m
    ELSE GroupCells(MapAppend(m, sheet_key(Head(cs)), Head(cs)), Tail(cs))

\* insert entry e after the entries of m that are not larger (stable)
RECURSIVE InsertBySize(_, _)
InsertBySize(m, e) ==
    IF m = <<>> THEN <<e>>
    ELSE IF Len(Head(m).value) <= Len(e.value)
         THEN <<Head(m)>> \o InsertBySize(Tail(m), e)
         ELSE <<e>> \o m

\* llm.py:348 sorted(..., key=lambda x: len(x[1])), a stable sort
RECURSIVE SortBySize(_)
SortBySize(m) ==
    IF m = <<>> THEN <<>>
    ELSE InsertBySize(SortBySize(SubSeq(m, 1, Len(m) - 1)), m[Len(m)])

\* llm.py:328-350
group_cells_by_sheet(cs) == SortBySize(GroupCells(<<>>, cs))

\* llm.py:1135 f"{cell.file_name}:{cell.sheet_name}:{cell.cell_address}"
CellLocation(cell) ==
    cell.file_name \o Colon \o cell.sheet_name \o Colon \o cell.cell_address

\* llm.py:1121-1154 one entry of the request log
AuditEntry(cs, resp, error) ==
    [batch_size |-> Len(cs),
     cell_locations |-> [i \in DOMAIN cs |-> CellLocation(cs[i])],
     response |-> resp, error |-> error]

\* llm.py:297-299
ReviewNoClient ==
    /\ pc = "review"
    /\ ~client
    /\ pc' = "review_done"
    /\ UNCHANGED <<mergeVars, detectVars, parseVars, reviewVars, runVars, repairVars>>

\* llm.py:302-306
ReviewNoValidCells ==
    /\ pc = "review"
    /\ client
    /\ SelectSeq(cells, IsValidCell) = <<>>
    /\ pc' = "review_done"
    /\ UNCHANGED <<mergeVars, detectVars, parseVars, reviewVars, runVars, repairVars>>

\* llm.py:302-314
ReviewGroupCells ==
    /\ pc = "review"
    /\ client
    /\ SelectSeq(cells, IsValidCell) # <<>>
    /\ sheet_groups' = group_cells_by_sheet(SelectSeq(cells, IsValidCell))
    /\ group_idx' = 1
    /\ pc' = "review_loop"
    /\ UNCHANGED <<mergeVars, detectVars, parseVars, client, request_count,
                   api_calls, audit_log, all_responses, call_returns, runVars, repairVars>>

\* the provider call raised instead of returning a text
CallRaised == [kind |-> "raised", items |-> <<>>]

\* the buggy variant: the first failed call ends the review
ProcessCellBatchCallFailsAborts ==
    /\ pc = "review_loop"
    /\ group_idx <= Len(sheet_groups)
    /\ LET sheet_cells == sheet_groups[group_idx].value
       IN  /\ request_count' = request_count + 1
           /\ api_calls' = Append(api_calls, sheet_cells)
           /\ call_returns' = Append(call_returns, CallRaised)
           /\ audit_log' = Append(audit_log, AuditEntry(sheet_cells, None, <<"error">>))
    /\ pc' = "review_done"
    /\ UNCHANGED <<mergeVars, detectVars, parseVars, client, sheet_groups,
                   group_idx, all_responses, runVars, repairVars>>

\* llm.py:316-321 with 413-433 and 775-818: the provider call raises; the
\* handler of _call_llm_for_cells logs the error and returns [], and the
\* loop goes on to the next group
ProcessCellBatchCallFails ==
    /\ pc = "review_loop"
    /\ group_idx <= Len(sheet_groups)
    /\ LET sheet_cells == sheet_groups[group_idx].value
       IN  /\ request_count' = request_count + 1
           /\ api_calls' = Append(api_calls, sheet_cells)
           /\ call_returns' = Append(call_returns, CallRaised)
           /\ audit_log' = Append(audit_log, AuditEntry(sheet_cells, None, <<"error">>))
    /\ group_idx' = group_idx + 1
    /\ UNCHANGED <<pc, mergeVars, detectVars, parseVars, client, sheet_groups,
                   all_responses, runVars, repairVars>>

\* the buggy variant: the handlers catch what the parser catches
CaughtByCallNarrow == {"JSONDecodeError", "KeyError", "ValueError", "IndexError"}

\* llm.py:813 and 431 `except Exception`: every exception class of the
\* parser is caught by the handlers around it
CaughtByCall ==
    {"JSONDecodeError", "KeyError", "ValueError", "IndexError", "TypeError",
     "AttributeError"}

\* an exception of the parser gets out of _process_cell_batch
BatchRaises(resp) == ParseRaises(resp) /\ parse_error(resp) \notin CaughtByCall

\* llm.py:809 and 813-818: the entries written for a call that returned the
\* text resp: the success entry, and the entry of the handler when it
\* catches an exception the parser let out
ReturnEntries(cs, resp) ==
    IF ParseRaises(resp) /\ ~BatchRaises(resp)
    THEN <<AuditEntry(cs, resp, None), AuditEntry(cs, None, <<"error">>)>>
    ELSE <<AuditEntry(cs, resp, None)>>

\* the buggy variant: the batch is state shared by the calls, and every
\* response is parsed against the cells of the first group
ProcessCellBatchCallReturnsSharedBatch(resp) ==
    /\ pc = "review_loop"
    /\ group_idx <= Len(sheet_groups)
    /\ LET sheet_cells == sheet_groups[group_idx].value
       IN  /\ request_count' = request_count + 1
           /\ api_calls' = Append(api_calls, sheet_cells)
           /\ call_returns' = Append(call_returns, resp)
           /\ audit_log' = audit_log \o ReturnEntries(sheet_cells, resp)
           /\ pc' = pc
           /\ group_idx' = group_idx + 1
           /\ all_responses' = all_responses \o call_result(resp, sheet_groups[1].value)
    /\ UNCHANGED <<mergeVars, detectVars, parseVars, client, sheet_groups, runVars, repairVars>>

\* llm.py:316-321 with 413-433 and 775-818: the provider returns a text; it
\* is logged, parsed, and its findings are collected
ProcessCellBatchCallReturns(resp) ==
    /\ pc = "review_loop"
    /\ group_idx <= Len(sheet_groups)
    /\ LET sheet_cells == sheet_groups[group_idx].value
       IN  /\ request_count' = request_count + 1
           /\ api_calls' = Append(api_calls, sheet_cells)
           /\ call_returns' = Append(call_returns, resp)
           /\ audit_log' = audit_log \o ReturnEntries(sheet_cells, resp)
           /\ IF BatchRaises(resp)
              THEN /\ pc' = "review_raised"
                   /\ UNCHANGED <<group_idx, all_responses, repairVars>>
              ELSE /\ pc' = pc
                   /\ group_idx' = group_idx + 1
                   /\ all_responses' = all_responses \o call_result(resp, sheet_cells)
    /\ UNCHANGED <<mergeVars, detectVars, parseVars, client, sheet_groups, runVars, repairVars>>

\* llm.py:325-326
ReviewReturn ==
    /\ pc = "review_loop"
    /\ group_idx > Len(sheet_groups)
    /\ pc' = "review_done"
    /\ UNCHANGED <<mergeVars, detectVars, parseVars, reviewVars, runVars, repairVars>>

----------------------------------------------------------------------------
(* src/main.py : ExcelChecker._merge_detection_results *)

\* f"{result.file_name}:{result.sheet_name}:{result.cell_address}:{result.original}"
create_mechanical_key(result) ==
    result.file_name \o Colon \o result.sheet_name \o Colon
        \o result.cell_address \o Colon \o result.original

\* hasattr(result, 'source_detection') and result.source_detection
HasSourceDetection(result) ==
    /\ "source_detection" \in DOMAIN result
    /\ result.source_detection # NoDetection

create_llm_key(result) ==
    IF HasSourceDetection(result)
    THEN LET cell == result.source_detection.cell_data
         IN  cell.file_name \o Colon \o cell.sheet_name \o Colon
                 \o cell.cell_address \o Colon \o result.original
    ELSE <<"unknown", ":", "unknown", ":", "unknown", ":">> \o result.original

\* the buggy variant: the model typo always wins
ShouldOverrideAnyTypo(existing, result) == result.issue_type = "typo"

\* the buggy variant: the stored finding always stays
ShouldOverrideNever(existing, result) == FALSE

\* main.py:256
ShouldOverride(existing, result) ==
    existing.issue_type = "variant" /\ result.issue_type = "typo"

\* the buggy variant: the override edits the stored finding in place
OverrideValueEdit(existing, result) ==
    [existing EXCEPT !.issue_type = result.issue_type,
                     !.suggested_fix = result.suggested_fix]

\* main.py:258 the value stored when the model finding wins
OverrideValue(existing, result) == result

\* main.py:245-248, one iteration of the mechanical loop
MergeMechanical ==
    /\ pc = "merge_mech"
    /\ idx <= Len(mechanical_results)
    /\ LET result == mechanical_results[idx]
           key == create_mechanical_key(result)
       IN  merged_map' = MapSet(merged_map, key, result)
    /\ idx' = idx + 1
    /\ UNCHANGED <<pc, mechanical_results, llm_results, merged, detectVars, parseVars, reviewVars, runVars, repairVars>>

\* main.py:245 -> 251, the mechanical loop is exhausted
MergeMechanicalDone ==
    /\ pc = "merge_mech"
    /\ idx > Len(mechanical_results)
    /\ pc' = "merge_llm"
    /\ idx' = 1
    /\ UNCHANGED <<mechanical_results, llm_results, merged_map, merged, detectVars, parseVars, reviewVars, runVars, repairVars>>

\* main.py:253-259, the key is present and the model typo replaces a variant
MergeLLMOverride ==
    /\ pc = "merge_llm"
    /\ idx <= Len(llm_results)
    /\ LET result == llm_results[idx]
           key == create_llm_key(result)
       IN  /\ HasKey(merged_map, key)
           /\ ShouldOverride(MapGet(merged_map, key), result)
           /\ merged_map' = MapSet(merged_map, key,
                                   OverrideValue(MapGet(merged_map, key), result))
    /\ idx' = idx + 1
    /\ UNCHANGED <<pc, mechanical_results, llm_results, merged, detectVars, parseVars, reviewVars, runVars, repairVars>>

\* main.py:260-262, the key is present and the stored finding is kept
MergeLLMKeep ==
    /\ pc = "merge_llm"
    /\ idx <= Len(llm_results)
    /\ LET result == llm_results[idx]
           key == create_llm_key(result)
       IN  /\ HasKey(merged_map, key)
           /\ ~ShouldOverride(MapGet(merged_map, key), result)
    /\ idx' = idx + 1
    /\ UNCHANGED <<pc, mechanical_results, llm_results, merged_map, merged, detectVars, parseVars, reviewVars, runVars, repairVars>>

\* main.py:263-266, a new key
MergeLLMAdd ==
    /\ pc = "merge_llm"
    /\ idx <= Len(llm_results)
    /\ LET result == llm_results[idx]
           key == create_llm_key(result)
       IN  /\ ~HasKey(merged_map, key)
           /\ merged_map' = MapSet(merged_map, key, result)
    /\ idx' = idx + 1
    /\ UNCHANGED <<pc, mechanical_results, llm_results, merged, detectVars, parseVars, reviewVars, runVars, repairVars>>

\* main.py:268
MergeReturn ==
    /\ pc = "merge_llm"
    /\ idx > Len(llm_results)
    /\ merged' = MapValues(merged_map)
    /\ pc' = "merge_done"
    /\ UNCHANGED <<mechanical_results, llm_results, merged_map, idx, detectVars, parseVars, reviewVars, runVars, repairVars>>

MergeNext ==
    \/ MergeMechanical
    \/ MergeMechanicalDone
    \/ MergeLLMOverride
    \/ MergeLLMKeep
    \/ MergeLLMAdd
    \/ MergeReturn

----------------------------------------------------------------------------
(* The reconciler on bounded input streams *)

MaxMechanical == 2
MaxLLM == 2

SeqsUpTo(S, n) == UNION {[1..k -> S] : k \in 0..n}

\* three cells; the file name of cellB holds a colon, so does that of cellU
cellA == CellData(<<"a">>, <<"S">>, <<"B2">>, 2, 2, <<"x">>)
cellB == CellData(<<"a", ":", "S">>, <<"B2">>, <<"A1">>, 1, 1, <<"x">>)
cellU == CellData(<<"unknown", ":", "unknown">>, <<"unknown">>, <<"A1">>, 1, 1, <<"x">>)

textX == <<"x">>
textAX == <<"A1", ":", "x">>
fix1 == <<"y">>
fix2 == <<"z">>

MechanicalInputs ==
    {MechanicalResult(cellA, textX, None, "variant", <<"r">>, 85, None),
     MechanicalResult(cellA, textX, fix1, "variant", <<"r">>, 90, fix1),
     MechanicalResult(cellA, textX, fix1, "typo", <<"r">>, 90, fix1),
     MechanicalResult(cellA, textAX, None, "variant", <<"r">>, 85, None),
     MechanicalResult(cellB, textX, None, "variant", <<"r">>, 85, None),
     MechanicalResult(cellU, textX, None, "variant", <<"r">>, 85, None)}

ModelFinding(cell, original, issue_type, fix) ==
    LLMReviewResponse(issue_type, original, fix, None, <<"r">>, 80,
                      FakeDetection(cell, "TYPO", fix, None, 80))

DegradedFinding(original, issue_type, fix) ==
    LLMReviewResponse(issue_type, original, fix, None, <<"r">>, 80, NoDetection)

LLMInputs ==
    {ModelFinding(cellA, textX, "typo", fix1),
     ModelFinding(cellA, textX, "typo", fix2),
     ModelFinding(cellA, textX, "variant", fix1),
     ModelFinding(cellA, textAX, "typo", fix1),
     ModelFinding(cellB, textX, "typo", fix1),
     ModelFinding(cellU, textX, "variant", fix1),
     DegradedFinding(textAX, "typo", fix1),
     DegradedFinding(textX, "variant", fix1)}

MergeInit ==
    /\ pc = "merge_mech"
    /\ mechanical_results \in SeqsUpTo(MechanicalInputs, MaxMechanical)
    /\ llm_results \in SeqsUpTo(LLMInputs, MaxLLM)
    /\ merged_map = <<>>
    /\ idx = 1
    /\ merged = <<>>
    /\ DetectIdle
    /\ ParseIdle
    /\ ReviewIdle
    /\ RunIdle

SpecMerge == MergeInit /\ [][MergeNext]_vars

----------------------------------------------------------------------------
(* Properties of the reconciler *)

IsMechanical(f) == "file_name" \in DOMAIN f

\* the merge key the code computes for a finding of either stream
FindingKey(f) ==
    IF IsMechanical(f) THEN create_mechanical_key(f) ELSE create_llm_key(f)

\* the four-field tuple of the data model
MergeTuple(f) ==
    IF IsMechanical(f)
    THEN <<f.file_name, f.sheet_name, f.cell_address, f.original>>
    ELSE IF HasSourceDetection(f)
         THEN <<f.source_detection.cell_data.file_name,
                f.source_detection.cell_data.sheet_name,
                f.source_detection.cell_data.cell_address, f.original>>
         ELSE <<<<"unknown">>, <<"unknown">>, <<"unknown">>, f.original>>

MergeInputs == Range(mechanical_results) \cup Range(llm_results)

\* the entries of the returned list stored under a key
HeldAt(key) == {i \in DOMAIN merged : FindingKey(merged[i]) = key}

\* s without the later repetitions of its elements
RECURSIVE FirstSeen(_)
FirstSeen(s) ==
    IF s = <<>> THEN <<>>
    ELSE LET front == FirstSeen(SubSeq(s, 1, Len(s) - 1))
             last == s[Len(s)]
         IN  IF last \in Range(front) THEN front ELSE Append(front, last)

Min(S) == CHOOSE x \in S : \A y \in S : x <= y
Max(S) == CHOOSE x \in S : \A y \in S : x >= y

\* C3 as stated: for every model finding and every mechanical finding with
\* equal merge keys, the returned list holds the model finding at that key
\* when the mechanical kind is variant and the model kind is typo, and the
\* mechanical finding otherwise.
C3_PriorityPerPair ==
    pc = "merge_done" =>
        \A i \in DOMAIN llm_results : \A j \in DOMAIN mechanical_results :
            LET l == llm_results[i]
                m == mechanical_results[j]
            IN  create_llm_key(l) = create_mechanical_key(m) =>
                    \E h \in HeldAt(create_llm_key(l)) :
                        merged[h] = (IF m.issue_type = "variant" /\ l.issue_type = "typo"
                                     THEN l ELSE m)

\* C3 amended: at a key shared by the two streams the returned list holds
\* exactly one finding: the first model finding of kind typo with that key
\* when the last mechanical finding with that key is a variant and some
\* model finding with that key is a typo, and the last mechanical finding
\* with that key in every other case.
C3_Priority ==
    pc = "merge_done" =>
        \A j \in DOMAIN mechanical_results :
            LET key == create_mechanical_key(mechanical_results[j])
                lastMech == mechanical_results[
                    Max({k \in DOMAIN mechanical_results :
                            create_mechanical_key(mechanical_results[k]) = key})]
                typos == {i \in DOMAIN llm_results :
                            /\ create_llm_key(llm_results[i]) = key
                            /\ llm_results[i].issue_type = "typo"}
            IN  (\E i \in DOMAIN llm_results : create_llm_key(llm_results[i]) = key) =>
                    /\ Cardinality(HeldAt(key)) = 1
                    /\ \A h \in HeldAt(key) :
                         merged[h] = (IF lastMech.issue_type = "variant" /\ typos # {}
                                      THEN llm_results[Min(typos)] ELSE lastMech)

C3_Witness ==
    /\ pc = "merge_done"
    /\ Len(mechanical_results) = 1 /\ Len(llm_results) = 2
    /\ mechanical_results[1].issue_type = "variant"
    /\ llm_results[1].issue_type = "variant" /\ llm_results[2].issue_type = "typo"
    /\ create_llm_key(llm_results[1]) = create_mechanical_key(mechanical_results[1])
    /\ create_llm_key(llm_results[2]) = create_mechanical_key(mechanical_results[1])
    /\ merged = <<llm_results[2]>>

\* C5: the returned list holds exactly one finding for each distinct
\* (document_id, sheet_id, address, original_text) tuple of the two input
\* streams, so two inputs share an entry iff their tuples are equal.
C5_DedupByTuple ==
    pc = "merge_done" =>
        LET tuples == {MergeTuple(f) : f \in MergeInputs}
        IN  /\ Len(merged) = Cardinality(tuples)
            /\ \A t \in tuples :
                 Cardinality({i \in DOMAIN merged : MergeTuple(merged[i]) = t}) = 1

\* C6: every element of the returned list is one of the input findings,
\* equal to it in every field.
C6_SelectsOnly ==
    pc = "merge_done" => \A i \in DOMAIN merged : merged[i] \in MergeInputs

C6_Witness ==
    /\ pc = "merge_done"
    /\ Len(merged) = 2
    /\ \E i \in DOMAIN merged : \E j \in DOMAIN mechanical_results :
          /\ ~IsMechanical(merged[i])
          /\ FindingKey(merged[i]) = create_mechanical_key(mechanical_results[j])

\* C7: the keys of the returned list are the keys of the mechanical stream
\* followed by those of the model stream, each at its first occurrence.
C7_FirstSeenOrder ==
    pc = "merge_done" =>
        [i \in DOMAIN merged |-> FindingKey(merged[i])] =
            FirstSeen([i \in DOMAIN mechanical_results |->
                            create_mechanical_key(mechanical_results[i])]
                      \o [i \in DOMAIN llm_results |->
                            create_llm_key(llm_results[i])])

C7_Witness ==
    /\ pc = "merge_done"
    /\ Len(mechanical_results) = 2 /\ Len(llm_results) = 2
    /\ Len(merged) = 3
    /\ ~IsMechanical(merged[1]) /\ IsMechanical(merged[2]) /\ ~IsMechanical(merged[3])

\* the returned list is a selection from stream s with one entry per key
OnePerKeyOf(s) ==
    /\ {FindingKey(merged[i]) : i \in DOMAIN merged} = {FindingKey(f) : f \in Range(s)}
    /\ Len(merged) = Cardinality({FindingKey(f) : f \in Range(s)})
    /\ \A i \in DOMAIN merged : merged[i] \in Range(s)

\* C8: two empty streams give the empty list, and one empty stream gives
\* the findings of the other stream, one per distinct merge key.
C8_EmptyStreams ==
    pc = "merge_done" =>
        /\ (mechanical_results = <<>> /\ llm_results = <<>>) => merged = <<>>
        /\ mechanical_results = <<>> => OnePerKeyOf(llm_results)
        /\ llm_results = <<>> => OnePerKeyOf(mechanical_results)

C8_Witness ==
    /\ pc = "merge_done"
    /\ mechanical_results = <<>>
    /\ Len(llm_results) = 2
    /\ Len(merged) = 1

\* C9: the placeholder key of a model finding without a back-referenced
\* cell differs from the key of every mechanical finding and of every model
\* finding with a back-referenced cell.
C9_PlaceholderNeverCollides ==
    \A i \in DOMAIN llm_results :
        ~HasSourceDetection(llm_results[i]) =>
            /\ \A j \in DOMAIN mechanical_results :
                 create_llm_key(llm_results[i]) # create_mechanical_key(mechanical_results[j])
            /\ \A j \in DOMAIN llm_results :
                 HasSourceDetection(llm_results[j]) =>
                    create_llm_key(llm_results[i]) # create_llm_key(llm_results[j])

----------------------------------------------------------------------------
(* One batch response parsed and reconciled with mechanical findings *)

MaxItems == 1

KANRI == <<"kan", "ri">>
RIKAN == <<"ri", "kan">>

\* the cells of one sheet
batchCell1 == CellData(<<"docA">>, <<"S1">>, <<"A1">>, 1, 1, KANRI \o <<"no">> \o YUUZA)
batchCell2 == CellData(<<"docA">>, <<"S1">>, <<"A2">>, 2, 1, KANRI)

Batches == {<<batchCell1>>, <<batchCell1, batchCell2>>}

ResponseItems ==
    {Item(i, "typo", KANRI, RIKAN, None, 80) : i \in {0, 1, 2}}
    \cup {Item(1, t, KANRI, RIKAN, c, conf) :
             t \in {"typo", "variant", "none"}, c \in {None, <<>>, RIKAN},
             conf \in {69, 70, 80}}
    \cup {Item(i, t, o, f, None, 80) :
             i \in {1, 2}, t \in {"typo", "variant"}, o \in {KANRI, YUUZA},
             f \in {KANRI, RIKAN, None}}

Responses ==
    {NoJson, BadJson} \cup {JsonItems(items) : items \in SeqsUpTo(ResponseItems, MaxItems)}

BatchMechanicalInputs ==
    {MechanicalResult(batchCell1, KANRI, None, "variant", <<"r">>, 85, None),
     MechanicalResult(batchCell1, YUUZA, None, "variant", <<"r">>, 85, None),
     MechanicalResult(batchCell2, KANRI, None, "variant", <<"r">>, 85, None)}

ParseMergeInit ==
    /\ pc = "parse"
    /\ batch \in Batches
    /\ response \in Responses
    /\ mechanical_results \in SeqsUpTo(BatchMechanicalInputs, MaxMechanical)
    /\ llm_results = <<>>
    /\ merged_map = <<>>
    /\ idx = 1
    /\ merged = <<>>
    /\ DetectIdle
    /\ ReviewIdle
    /\ RunIdle

ParseMergeNext == ParseCellBatchResponse \/ MergeNext

SpecParseMerge == ParseMergeInit /\ [][ParseMergeNext]_vars

\* the response is one item with index 1, kind typo, no canonical,
\* confidence 0.8 and a fix that differs from its original, and the
\* mechanical stream is one variant finding at the place of the first cell
Scenario3 ==
    /\ response.kind = "items"
    /\ Len(response.items) = 1
    /\ response.items[1].item_index = 1
    /\ response.items[1].issue_type = "typo"
    /\ response.items[1].canonical = None
    /\ response.items[1].confidence = JNum(80)
    /\ response.items[1].suggested_fix # response.items[1].original
    /\ Len(mechanical_results) = 1
    /\ mechanical_results[1].issue_type = "variant"
    /\ mechanical_results[1].file_name = batch[1].file_name
    /\ mechanical_results[1].sheet_name = batch[1].sheet_name
    /\ mechanical_results[1].cell_address = batch[1].cell_address

\* a finding of either stream lies at the place of cell
IsAt(f, cell) ==
    IF IsMechanical(f)
    THEN /\ f.file_name = cell.file_name
         /\ f.sheet_name = cell.sheet_name
         /\ f.cell_address = cell.cell_address
    ELSE /\ HasSourceDetection(f)
         /\ f.source_detection.cell_data = cell

\* the finding the item of Scenario3 stands for
Scenario3Finding ==
    LLMReviewResponse("typo", response.items[1].original,
                      response.items[1].suggested_fix, None, <<"r">>, 80,
                      FakeDetection(batch[1], "TYPO", response.items[1].suggested_fix,
                                    None, 80))

\* C4 as stated: in Scenario3 the returned list carries, at the place of
\* the first cell, the model's typo finding and no mechanical finding.
C4_Scenario3SameLocation ==
    (pc = "merge_done" /\ Scenario3) =>
        /\ \E i \in DOMAIN merged : merged[i] = Scenario3Finding
        /\ \A i \in DOMAIN merged : IsAt(merged[i], batch[1]) => ~IsMechanical(merged[i])

\* C4 amended: in Scenario3, when the mechanical finding also has the
\* original text of the item (equal merge keys), the returned list is
\* the model's typo finding alone.
C4_Scenario3 ==
    ( /\ pc = "merge_done"
      /\ Scenario3
      /\ mechanical_results[1].original = response.items[1].original )
        => merged = <<Scenario3Finding>>

C4_Witness ==
    /\ pc = "merge_done"
    /\ Scenario3
    /\ mechanical_results[1].original = response.items[1].original
    /\ Len(merged) = 1
    /\ merged[1].issue_type = "typo"
    /\ ~IsMechanical(merged[1])

----------------------------------------------------------------------------
(* review_all_cells on bounded corpora *)

MaxReviewCells == 3

\* (document, sheet) of the corpus cells; one file name holds a colon
ReviewSheets ==
    {<<<<"docA">>, <<"S1">>>>,
     <<<<"docA">>, <<"S2">>>>,
     <<<<"docB", ":", "v2">>, <<"S1">>>>}

\* a text of trimmed length >= 2 and a text that is too short once trimmed
ReviewTexts == {KANRI, <<" ", "D", " ">>}

\* the cell at position k (row k of column A) of a sheet
ReviewCell(sheet, k, text) ==
    CellData(sheet[1], sheet[2], <<"A", ToString(k)>>, k, 1, text)

ReviewCorpora ==
    UNION {{[k \in 1..n |-> ReviewCell(choice[k][1], k, choice[k][2])] :
               choice \in [1..n -> ReviewSheets \X ReviewTexts]} :
           n \in 0..MaxReviewCells}

\* what the service may answer to a batch
\* well-formed answers with and without a finding, and the malformed ones:
\* no JSON, undecodable JSON, JSON that is no list, a list of non-objects,
\* items with a null, a non-numeric or text confidence, and an item with
\* missing fields
ServiceResponses ==
    {NoJson, BadJson, NotIterable,
     JsonItems(<<Item(1, "typo", KANRI, RIKAN, None, 80)>>),
     JsonItems(<<Item(2, "variant", KANRI, RIKAN, RIKAN, 70)>>),
     JsonItems(<<NotAnObject>>),
     JsonItems(<<Item(1, "typo", KANRI, RIKAN, None, 80),
                 RawItem(1, "typo", KANRI, RIKAN, None, JNull)>>),
     JsonItems(<<RawItem(1, "typo", KANRI, RIKAN, None, JStr(<<"h", "i">>))>>),
     JsonItems(<<RawItem(1, "typo", KANRI, RIKAN, None, JStr(<<"0", ".", "8">>))>>),
     JsonItems(<<[issue_type |-> "typo", original |-> KANRI, confidence |-> JNum(90)]>>)}

ReviewInit ==
    /\ pc = "review"
    /\ cells \in ReviewCorpora
    /\ client \in BOOLEAN
    /\ sheet_groups = <<>>
    /\ group_idx = 1
    /\ request_count = 0
    /\ api_calls = <<>>
    /\ audit_log = <<>>
    /\ all_responses = <<>>
    /\ call_returns = <<>>
    /\ RunIdle
    /\ dictionary = NoFile
    /\ canonical_rules = <<>>
    /\ term_occurrences = <<>>
    /\ inconsistencies = <<>>
    /\ results = <<>>
    /\ MergeIdle
    /\ ParseIdle

ReviewNext ==
    \/ ReviewNoClient
    \/ ReviewNoValidCells
    \/ ReviewGroupCells
    \/ ProcessCellBatchCallFails
    \/ \E resp \in ServiceResponses : ProcessCellBatchCallReturns(resp)
    \/ ReviewReturn

SpecReview == ReviewInit /\ [][ReviewNext]_vars

\* the (document_id, sheet_id) pairs that hold at least one valid cell
ValidSheets ==
    {<<cells[k].file_name, cells[k].sheet_name>> :
        k \in {i \in DOMAIN cells : IsValidCell(cells[i])}}

\* the calls whose batch lies in the sheet g
CallsFor(g) ==
    {i \in DOMAIN api_calls :
        \A k \in DOMAIN api_calls[i] :
            <<api_calls[i][k].file_name, api_calls[i][k].sheet_name>> = g}

\* C10: with an initialised client, when review_all_cells returns, each
\* (document_id, sheet_id) group with a valid cell was called exactly once,
\* and the number of calls and request_count equal the number of groups.
C10_OneCallPerSheet ==
    (pc = "review_done" /\ client) =>
        /\ \A g \in ValidSheets : Cardinality(CallsFor(g)) = 1
        /\ Len(api_calls) = Cardinality(ValidSheets)
        /\ request_count = Cardinality(ValidSheets)

C10_Witness ==
    /\ pc = "review_done"
    /\ client
    /\ Cardinality(ValidSheets) = 2
    /\ Len(api_calls) = 2
    /\ Len(api_calls[2]) = 2
    /\ audit_log[1].error # None

\* the findings the call at position i of the run contributed
FindingsOfCall(i) ==
    IF call_returns[i] = CallRaised THEN <<>>
    ELSE call_result(call_returns[i], api_calls[i])

\* the (document_id, sheet_id) group of a batch
GroupOf(cs) == <<cs[1].file_name, cs[1].sheet_name>>

\* C11: when review_all_cells has returned, a group whose call raised was
\* called once and not again, every group with a valid cell was called
\* whatever the outcome of the calls before it, and the returned findings
\* are those of the calls that returned, in call order, a raised call
\* giving none.
C11_FailedCallFailsOpen ==
    (pc = "review_done" /\ client) =>
        /\ Len(call_returns) = Len(api_calls)
        /\ \A i \in DOMAIN api_calls :
              call_returns[i] = CallRaised =>
                  Cardinality(CallsFor(GroupOf(api_calls[i]))) = 1
        /\ {GroupOf(api_calls[i]) : i \in DOMAIN api_calls} = ValidSheets
        /\ all_responses = Flatten([i \in DOMAIN api_calls |-> FindingsOfCall(i)])

C11_Witness ==
    /\ pc = "review_done"
    /\ Len(api_calls) = 3
    /\ call_returns[1] = CallRaised
    /\ call_returns[2] # CallRaised
    /\ call_returns[3] = CallRaised
    /\ all_responses # <<>>

\* s is a prefix of t
IsPrefix(s, t) == Len(s) <= Len(t) /\ SubSeq(t, 1, Len(s)) = s

\* C12: every step in which the service returns a text for a batch leaves
\* the review in its loop at the next group, never raised, with the list
\* of findings extended by a (possibly empty) list, and unchanged when the
\* text holds no JSON, cannot be decoded, is no list, or an item raises.
C12_MalformedResponseFailsOpen ==
    [][(Len(call_returns') = Len(call_returns) + 1
         /\ call_returns'[Len(call_returns')] # CallRaised) =>
            LET resp == call_returns'[Len(call_returns')]
            IN  /\ pc' = "review_loop"
                /\ group_idx' = group_idx + 1
                /\ IsPrefix(all_responses, all_responses')
                /\ parse_error(resp) # "none" => all_responses' = all_responses
                /\ resp.kind # "items" => all_responses' = all_responses]_vars

C12_Witness ==
    /\ pc = "review_done"
    /\ Len(call_returns) = 3
    /\ call_returns[1] = NotIterable
    /\ call_returns[2] = JsonItems(<<NotAnObject>>)
    /\ call_returns[3] # CallRaised
    /\ all_responses # <<>>

\* C13: at every point of review_all_cells the request log holds exactly
\* one entry for each call attempt made so far.
C13_OneEntryPerAttempt ==
    /\ Len(audit_log) = Len(api_calls)
    /\ \A i \in DOMAIN audit_log :
          audit_log[i].cell_locations =
              [k \in DOMAIN api_calls[i] |-> CellLocation(api_calls[i][k])]

----------------------------------------------------------------------------
(* _detect_term_inconsistencies and _generate_detection_results on bounded *)
(* occurrence maps: any Dict[str, List[TermOccurrence]], also one whose    *)
(* occurrences under a key differ in original_text                         *)

MaxOccurrences == 3

H_YUUZA == <<"h_yu", "h_za">>                                    \* ﾕｻﾞ

\* the term keys with the surface forms their occurrences may have
GroupTerms ==
    <<[key |-> YUUZA, forms |-> {YUUZA, YUUZAA, H_YUUZA}],
      [key |-> <<"d", "b">>, forms |-> {<<"D", "B">>, <<"d", "b">>}],
      [key |-> <<"d", "b">>, forms |-> {<<"D">>, <<"B">>}],
      [key |-> <<"D", "B">>, forms |-> {<<"D">>, <<"B">>}]>>

\* the occurrence lists of term t: the occurrence at position k lies at
\* the k-th place
OccurrenceLists(t) ==
    UNION {{[k \in 1..n |-> TermOccurrence(PlaceOf(k), forms[k])] :
               forms \in [1..n -> GroupTerms[t].forms]} : n \in 1..MaxOccurrences}

OccurrenceMaps ==
    {<<>>}
    \cup UNION {{<<[key |-> GroupTerms[t].key, value |-> occs]>> :
                    occs \in OccurrenceLists(t)} : t \in DOMAIN GroupTerms}
    \cup {<<[key |-> GroupTerms[1].key, value |-> o1],
            [key |-> GroupTerms[2].key, value |-> o2]>> :
             o1 \in OccurrenceLists(1), o2 \in OccurrenceLists(2)}

\* no file, a rule for each term, a rule whose canonical is no spelling of
\* the corpus, a rule without `expected` (read as ''), and a rule in
\* lower case
GroupDictionaries ==
    {NoFile,
     RulesFile(<<Rule(YUUZAA, <<YUUZA>>)>>),
     RulesFile(<<Rule(<<"D", "B">>, <<>>)>>),
     RulesFile(<<Rule(KANRI, <<H_YUUZA>>)>>),
     RulesFile(<<Rule(<<>>, <<YUUZA>>)>>),
     RulesFile(<<Rule(<<"d", "b">>, <<>>)>>)}

GroupsInit ==
    /\ pc = "detect"
    /\ dictionary \in GroupDictionaries
    /\ canonical_rules = load_canonical_rules(dictionary)
    /\ cells = <<>>
    /\ term_occurrences \in OccurrenceMaps
    /\ inconsistencies = <<>>
    /\ results = <<>>
    /\ MergeIdle
    /\ ParseIdle
    /\ ReviewIdle
    /\ RunIdle

GroupsNext == DetectTermInconsistencies \/ GenerateDetectionResults

SpecGroups == GroupsInit /\ [][GroupsNext]_vars

\* the occurrences of an inconsistency group, variant by variant
OccsOf(g) == Flatten(MapValues(g.variants))

\* finding f reports occurrence o
ReportsOccurrence(f, o) ==
    /\ f.file_name = o.file_name
    /\ f.sheet_name = o.sheet_name
    /\ f.cell_address = o.cell_address
    /\ f.row = o.row
    /\ f.column = o.column
    /\ f.original = o.original_text

\* number of positions of sequence s that satisfy Test
CountOf(s, Test(_)) == Cardinality({i \in DOMAIN s : Test(s[i])})

\* the findings of the group g with canonical C are as C14 says: one per
\* occurrence off C, none for an occurrence equal to C, all with fix C
ResolvedAsStated(g, C) ==
    /\ \A o \in Range(OccsOf(g)) :
          CountOf(results, LAMBDA f : ReportsOccurrence(f, o) /\ f.suggested_fix = C)
            = IF o.original_text = C THEN 0
              ELSE CountOf(OccsOf(g), LAMBDA x : x = o)
    /\ \A i \in DOMAIN results :
          (/\ results[i].suggested_fix = C
           /\ \E o \in Range(OccsOf(g)) : ReportsOccurrence(results[i], o))
             => /\ results[i].issue_type = "variant"
                /\ results[i].confidence = 90
                /\ results[i].canonical = C

\* C14 as stated: for every group whose canonical was resolved (is not
\* None), one finding per occurrence whose surface form differs from C,
\* none for an occurrence equal to C, each with suggested_fix C, kind
\* variant and confidence 0.90.
C14_ResolvedAnyCanonical ==
    pc = "detect_done" =>
        \A t \in DOMAIN inconsistencies :
            LET g == inconsistencies[t].value
            IN  g.canonical # None => ResolvedAsStated(g, g.canonical)

\* C14 amended: the same for every group whose canonical is resolved and
\* not the empty string.
C14_ResolvedCanonical ==
    pc = "detect_done" =>
        \A t \in DOMAIN inconsistencies :
            LET g == inconsistencies[t].value
            IN  (g.canonical # None /\ g.canonical # <<>>)
                    => ResolvedAsStated(g, g.canonical)

C14_Witness ==
    /\ pc = "detect_done"
    /\ Len(inconsistencies) = 1
    /\ inconsistencies[1].value.canonical = YUUZAA
    /\ Len(OccsOf(inconsistencies[1].value)) = 3
    /\ \E o \in Range(OccsOf(inconsistencies[1].value)) : o.original_text = YUUZAA
    /\ Len(results) = 2

\* C15: every group without a canonical gives exactly one finding, at its
\* first occurrence, of kind variant, without suggested fix and with
\* confidence 0.85; the findings without suggested fix are as many as the
\* groups that are not resolved to a non-empty canonical.
C15_UnresolvedOneFinding ==
    pc = "detect_done" =>
        /\ \A t \in DOMAIN inconsistencies :
              LET g == inconsistencies[t].value
                  first == term_occurrences[
                              CHOOSE k \in DOMAIN term_occurrences :
                                  term_occurrences[k].key = inconsistencies[t].key].value[1]
              IN  g.canonical = None =>
                      /\ CountOf(results, LAMBDA f :
                             \E o \in Range(OccsOf(g)) : ReportsOccurrence(f, o)) = 1
                      /\ \E i \in DOMAIN results :
                            /\ ReportsOccurrence(results[i], first)
                            /\ results[i].issue_type = "variant"
                            /\ results[i].suggested_fix = None
                            /\ results[i].confidence = 85
        /\ CountOf(results, LAMBDA f : f.suggested_fix = None)
             = CountOf(inconsistencies, LAMBDA e : ~Truthy(e.value.canonical))

C15_Witness ==
    /\ pc = "detect_done"
    /\ Len(inconsistencies) = 2
    /\ inconsistencies[1].value.canonical = None
    /\ Len(inconsistencies[1].value.variants) = 3
    /\ inconsistencies[2].value.canonical = None
    /\ Len(OccsOf(inconsistencies[2].value)) = 3
    /\ Len(results) = 2

\* all occurrences of an entry of term_occurrences have one surface form
OneSurfaceForm(e) == Cardinality({e.value[k].original_text : k \in DOMAIN e.value}) = 1

\* C16: a term key whose occurrences share one surface form has no
\* inconsistency group, and every finding reports an occurrence of a term
\* key with two or more surface forms.
C16_OneSpellingNoGroup ==
    pc \in {"generate", "detect_done"} =>
        /\ \A k \in DOMAIN term_occurrences :
              OneSurfaceForm(term_occurrences[k])
                  => ~HasKey(inconsistencies, term_occurrences[k].key)
        /\ \A i \in DOMAIN results :
              \E k \in DOMAIN term_occurrences :
                  /\ ~OneSurfaceForm(term_occurrences[k])
                  /\ \E o \in Range(term_occurrences[k].value) :
                        ReportsOccurrence(results[i], o)

C16_Witness ==
    /\ pc = "detect_done"
    /\ Len(term_occurrences) = 2
    /\ OneSurfaceForm(term_occurrences[1])
    /\ Len(term_occurrences[1].value) = 3
    /\ ~OneSurfaceForm(term_occurrences[2])
    /\ Len(inconsistencies) = 1
    /\ results # <<>>

----------------------------------------------------------------------------
(* src/src/llm.py : LLMReviewer._repair_json                               *)
(* A JSON text is a sequence of characters; a string literal and a digit   *)
(* are one character each.                                                 *)

JStrLit == "\"a\""          \* the string literal "a"
JBraceLit == "\"{\""        \* the string literal "{", which holds a brace
JDigit == "1"

\* the tokens of a text: whitespace dropped, adjacent digits are one number
RECURSIVE Tokens(_)
Tokens(s) ==
    IF s = <<>> THEN <<>>
    ELSE IF Head(s) \in Whitespace THEN Tokens(Tail(s))
    ELSE IF Head(s) = JDigit /\ Len(s) > 1 /\ s[2] = JDigit THEN Tokens(Tail(s))
    ELSE <<Head(s)>> \o Tokens(Tail(s))

Tok(t, i) == IF i \in DOMAIN t THEN t[i] ELSE "EOF"

\* the position after the JSON value that starts at position i of the
\* tokens t, or 0 when no value starts there
RECURSIVE ValueEnd(_, _)
RECURSIVE ElementsEnd(_, _)
RECURSIVE MembersEnd(_, _)
ValueEnd(t, i) ==
    IF Tok(t, i) \in {JStrLit, JBraceLit, JDigit} THEN i + 1
    ELSE IF Tok(t, i) = "[" THEN (IF Tok(t, i + 1) = "]" THEN i + 2 ELSE ElementsEnd(t, i + 1))
    ELSE IF Tok(t, i) = "{" THEN (IF Tok(t, i + 1) = "}" THEN i + 2 ELSE MembersEnd(t, i + 1))
    ELSE 0

ElementsEnd(t, i) ==
    LET e == ValueEnd(t, i)
    IN  IF e = 0 THEN 0
        ELSE IF Tok(t, e) = "," THEN ElementsEnd(t, e + 1)
        ELSE IF Tok(t, e) = "]" THEN e + 1
        ELSE 0

MembersEnd(t, i) ==
    IF Tok(t, i) \in {JStrLit, JBraceLit} /\ Tok(t, i + 1) = ":"
    THEN LET e == ValueEnd(t, i + 2)
         IN  IF e = 0 THEN 0
             ELSE IF Tok(t, e) = "," THEN MembersEnd(t, e + 1)
             ELSE IF Tok(t, e) = "}" THEN e + 1
             ELSE 0
    ELSE 0

\* llm.py:676 json.loads(json_text) raises no JSONDecodeError
JsonLoadsOk(text) ==
    LET t == Tokens(text) IN t # <<>> /\ ValueEnd(t, 1) = Len(t) + 1

\* str.rstrip(',')
RECURSIVE RStripCommas(_)
RStripCommas(s) ==
    IF s # <<>> /\ s[Len(s)] = "," THEN RStripCommas(SubSeq(s, 1, Len(s) - 1)) ELSE s

\* str.split('\n')
RECURSIVE SplitLines(_)
SplitLines(s) ==
    IF \A i \in DOMAIN s : s[i] # "\n" THEN <<s>>
    ELSE LET n == CHOOSE i \in DOMAIN s :
                      s[i] = "\n" /\ \A j \in 1..(i - 1) : s[j] # "\n"
         IN  <<SubSeq(s, 1, n - 1)>> \o SplitLines(SubSeq(s, n + 1, Len(s)))

\* line.count(c); the literal "{" counts as a brace
CountChar(line, c) ==
    Cardinality({i \in DOMAIN line :
                    line[i] = c \/ (c = "{" /\ line[i] = JBraceLit)})

\* llm.py:694-708 the loop over the lines
RECURSIVE ScanLines(_, _, _, _)
ScanLines(lines, valid_lines, brace_count, bracket_count) ==
    IF lines = <<>>
    THEN [valid_lines |-> valid_lines, brace_count |-> brace_count,
          bracket_count |-> bracket_count]
    ELSE LET line == Strip(Head(lines))
             braces == brace_count + CountChar(line, "{") - CountChar(line, "}")
             brackets == bracket_count + CountChar(line, "[") - CountChar(line, "]")
         IN  IF line = <<>>
             THEN ScanLines(Tail(lines), valid_lines, brace_count, bracket_count)
             ELSE IF braces < 0 \/ brackets < 0
                  THEN [valid_lines |-> Append(valid_lines, line),
                        brace_count |-> braces, bracket_count |-> brackets]
                  ELSE ScanLines(Tail(lines), Append(valid_lines, line), braces, brackets)

\* '\n'.join(lines)
RECURSIVE JoinLines(_)
JoinLines(lines) ==
    IF lines = <<>> THEN <<>>
    ELSE IF Len(lines) = 1 THEN lines[1]
    ELSE lines[1] \o <<"\n">> \o JoinLines(Tail(lines))

\* llm.py:681-716 the repair of a text json.loads rejects
general_repair(text) ==
    LET stripped == Strip(text)
        scan == ScanLines(SplitLines(RStripCommas(stripped)), <<>>, 0, 0)
    IN  JoinLines(scan.valid_lines)
            \o (IF scan.bracket_count > 0 THEN <<"]">> ELSE <<>>)
            \o (IF scan.brace_count > 0 THEN [k \in 1..scan.brace_count |-> "}"] ELSE <<>>)

\* the buggy variant: the text is repaired without trying json.loads first
repair_json_unchecked(text) == general_repair(text)

\* llm.py:664-716
repair_json(text) == IF JsonLoadsOk(text) THEN text ELSE general_repair(text)

\* a call of _repair_json on a text
RepairJson ==
    /\ pc = "repair"
    /\ repaired' = <<repair_json(json_text)>>
    /\ pc' = "repair_again"
    /\ UNCHANGED <<mergeVars, detectVars, parseVars, reviewVars, runVars, json_text>>

\* a call of _repair_json on the text the first call returned
RepairJsonAgain ==
    /\ pc = "repair_again"
    /\ repaired' = Append(repaired, repair_json(repaired[1]))
    /\ pc' = "repair_done"
    /\ UNCHANGED <<mergeVars, detectVars, parseVars, reviewVars, runVars, json_text>>

----------------------------------------------------------------------------
(* _repair_json on bounded texts *)

MaxJsonLen == 4

JsonChars == {"[", "]", "{", "}", ",", ":", "\n", " ", JStrLit, JDigit}

\* {"a": 1}
JsonObject == <<"{", JStrLit, ":", " ", JDigit, "}">>

\* lists of objects, on one line and on several lines, and one with a brace
\* inside a string
ListDocuments ==
    {<<"[">> \o JsonObject \o <<"]">>,
     <<"[">> \o JsonObject \o <<",", " ">> \o JsonObject \o <<"]">>,
     <<"[", "\n">> \o JsonObject \o <<",", "\n">> \o JsonObject \o <<"\n", "]">>,
     <<"\n", "[", "{", JStrLit, ":", JBraceLit, "}", "]", "\n">>}

Prefixes(d) == {SubSeq(d, 1, n) : n \in 0..Len(d)}

JsonTexts ==
    SeqsUpTo(JsonChars, MaxJsonLen)
    \cup UNION {Prefixes(d) : d \in ListDocuments}
    \cup {d \o <<",">> : d \in ListDocuments}

RepairInit ==
    /\ pc = "repair"
    /\ json_text \in JsonTexts
    /\ repaired = <<>>
    /\ provider = "anthropic"
    /\ llm_stats = NoStats
    /\ config_enabled = TRUE
    /\ enable_llm = TRUE
    /\ MergeIdle
    /\ DetectIdle
    /\ ParseIdle
    /\ ReviewIdle

RepairNext == RepairJson \/ RepairJsonAgain

SpecRepair == RepairInit /\ [][RepairNext]_vars

\* C17: a well-formed JSON document is returned unchanged by _repair_json,
\* and a second application to the result returns it unchanged again.
C17_NoOpOnWellFormed ==
    JsonLoadsOk(json_text) =>
        /\ pc \in {"repair_again", "repair_done"} => repaired[1] = json_text
        /\ pc = "repair_done" => repaired[2] = repaired[1]

C17_Witness ==
    /\ pc = "repair_done"
    /\ JsonLoadsOk(json_text)
    /\ Head(json_text) = "\n"
    /\ json_text[Len(json_text)] = "\n"
    /\ Len(json_text) > MaxJsonLen
    /\ repaired = <<json_text, json_text>>

\* the openers left unclosed by the tokens t, outermost first; a closer
\* that does not match the innermost opener is kept as it is
RECURSIVE OpenStack(_, _)
OpenStack(t, stack) ==
    IF t = <<>> THEN stack
    ELSE IF Head(t) \in {"[", "{"} THEN OpenStack(Tail(t), Append(stack, Head(t)))
    ELSE IF Head(t) = "]" /\ stack # <<>> /\ stack[Len(stack)] = "["
         THEN OpenStack(Tail(t), SubSeq(stack, 1, Len(stack) - 1))
    ELSE IF Head(t) = "}" /\ stack # <<>> /\ stack[Len(stack)] = "{"
         THEN OpenStack(Tail(t), SubSeq(stack, 1, Len(stack) - 1))
    ELSE IF Head(t) \in {"]", "}"} THEN OpenStack(Tail(t), Append(stack, Head(t)))
    ELSE OpenStack(Tail(t), stack)

\* text is a list of objects cut off inside an object: the bracket of the
\* list and the brace of an object are left open
TruncatedMidObject(text) ==
    /\ \E d \in ListDocuments : IsPrefix(text, d)
    /\ OpenStack(Tokens(text), <<>>) = <<"[", "{">>

\* C18: for a list of objects cut off inside an object, _repair_json
\* returns a text in which every brace and bracket is closed in nested
\* order and which json.loads accepts.
C18_TruncatedIsRepaired ==
    (pc \in {"repair_again", "repair_done"} /\ TruncatedMidObject(json_text)) =>
        /\ OpenStack(Tokens(repaired[1]), <<>>) = <<>>
        /\ JsonLoadsOk(repaired[1])

----------------------------------------------------------------------------
(* src/main.py : ExcelChecker.initialize_modules and process_files *)

\* llm.py:72-75 the values of the enum LLMProvider
SupportedProviders == {"anthropic", "openai"}

\* main.py:96-127 with mechanical_detector.py:65-98 and llm.py:81-115: the
\* detector loads its rules (a missing file gives no rule and a warning);
\* a disabled reviewer, or a provider name LLMProvider() rejects, ends the
\* process with sys.exit(1)
InitializeModules ==
    /\ pc = "run_init"
    /\ canonical_rules' = load_canonical_rules(dictionary)
    /\ pc' = IF config_enabled /\ provider \in SupportedProviders
             THEN "extract" ELSE "exit_1"
    /\ UNCHANGED <<mergeVars, parseVars, reviewVars, runVars, repairVars, dictionary,
                   cells, term_occurrences, inconsistencies, results>>

\* main.py:141-152 the cells of the input files; none is an error result
ExtractCells ==
    /\ pc = "extract"
    /\ pc' = IF cells = <<>> THEN "run_no_cells" ELSE "collect"
    /\ UNCHANGED <<mergeVars, detectVars, parseVars, reviewVars, runVars, repairVars>>

\* main.py:157-176 the mechanical findings are kept; without enable_llm the
\* run raises RuntimeError
StartReview ==
    /\ pc = "detect_done"
    /\ mechanical_results' = results
    /\ pc' = IF enable_llm THEN "review" ELSE "run_raised"
    /\ UNCHANGED <<llm_results, merged_map, idx, merged, detectVars, parseVars,
                   reviewVars, runVars, repairVars>>

RECURSIVE SumConfidence(_)
SumConfidence(responses) ==
    IF responses = <<>> THEN 0
    ELSE Head(responses).confidence + SumConfidence(Tail(responses))

\* llm.py:743-773; avg_confidence is confidence_sum / total_reviews
get_review_statistics(responses, count) ==
    IF responses = <<>> THEN NoStats
    ELSE [total_reviews |-> Len(responses),
          variant |-> Cardinality({i \in DOMAIN responses : responses[i].issue_type = "variant"}),
          typo |-> Cardinality({i \in DOMAIN responses : responses[i].issue_type = "typo"}),
          none |-> Cardinality({i \in DOMAIN responses : responses[i].issue_type = "none"}),
          confidence_sum |-> SumConfidence(responses),
          high_confidence |-> Cardinality({i \in DOMAIN responses : responses[i].confidence >= 70}),
          request_count |-> count]

\* main.py:168-169 and 180
GetReviewStatistics ==
    /\ pc = "review_done"
    /\ llm_results' = all_responses
    /\ llm_stats' = get_review_statistics(all_responses, request_count)
    /\ pc' = "merge_mech"
    /\ UNCHANGED <<mechanical_results, merged_map, idx, merged, detectVars, parseVars,
                   reviewVars, provider, config_enabled, enable_llm, repairVars>>

\* main.py:187-217 the merged findings and the statistics go to the reporter
GenerateReports ==
    /\ pc = "merge_done"
    /\ pc' = "run_done"
    /\ UNCHANGED <<mergeVars, detectVars, parseVars, reviewVars, runVars, repairVars>>

----------------------------------------------------------------------------
(* A run of the tool on bounded corpora and configurations *)

MaxRunCells == 2

RunSheets == {<<<<"docA">>, <<"S1">>>>, <<<<"docA">>, <<"S2">>>>}

RunCorpora ==
    UNION {{[k \in 1..n |-> ReviewCell(choice[k][1], k, choice[k][2])] :
               choice \in [1..n -> RunSheets \X {KANRI, <<"D">>}]} :
           n \in 0..MaxRunCells}

RunDictionaries == {NoFile, RulesFile(<<Rule(YUUZAA, <<YUUZA>>)>>)}

RunProviders == {"anthropic", "openai", "gemini"}

\* answers without finding, with one finding, and with two items for one
\* cell and one original
RunResponses ==
    {NoJson,
     JsonItems(<<Item(1, "typo", KANRI, RIKAN, None, 80)>>),
     JsonItems(<<Item(1, "variant", KANRI, RIKAN, None, 80),
                 Item(1, "typo", KANRI, RIKAN, None, 90)>>),
     JsonItems(<<Item(1, "typo", KANRI, RIKAN, None, 80),
                 Item(1, "typo", KANRI, <<"ri">>, None, 90)>>)}

RunInit ==
    /\ pc = "run_init"
    /\ dictionary \in RunDictionaries
    /\ provider \in RunProviders
    /\ config_enabled \in BOOLEAN
    /\ enable_llm \in BOOLEAN
    /\ client \in BOOLEAN
    /\ cells \in RunCorpora
    /\ canonical_rules = <<>>
    /\ term_occurrences = <<>>
    /\ inconsistencies = <<>>
    /\ results = <<>>
    /\ sheet_groups = <<>>
    /\ group_idx = 1
    /\ request_count = 0
    /\ api_calls = <<>>
    /\ audit_log = <<>>
    /\ all_responses = <<>>
    /\ call_returns = <<>>
    /\ llm_stats = NoStats
    /\ json_text = <<>>
    /\ repaired = <<>>
    /\ MergeIdle
    /\ ParseIdle

\* the mechanical stream of a run is empty, so the loop of main.py:245 has
\* no iteration
RunNext ==
    \/ InitializeModules
    \/ ExtractCells
    \/ CollectTermOccurrences
    \/ DetectTermInconsistencies
    \/ GenerateDetectionResults
    \/ StartReview
    \/ ReviewNoClient
    \/ ReviewNoValidCells
    \/ ReviewGroupCells
    \/ ProcessCellBatchCallFails
    \/ \E resp \in RunResponses : ProcessCellBatchCallReturns(resp)
    \/ ReviewReturn
    \/ GetReviewStatistics
    \/ MergeMechanicalDone
    \/ MergeLLMOverride
    \/ MergeLLMKeep
    \/ MergeLLMAdd
    \/ MergeReturn
    \/ GenerateReports

SpecRun == RunInit /\ [][RunNext]_vars

\* C19: with a missing dictionary file or an unsupported provider name the
\* run ends in initialize_modules with a fatal error: it never gets past
\* initialisation.
C19_ConfigurationErrorIsFatal ==
    (dictionary = NoFile \/ provider \notin SupportedProviders)
        => pc \in {"run_init", "exit_1"}

\* C20: when process_files has completed, the statistics of the model
\* review hold the request count, equal to the number of calls made.
C20_StatisticsHoldCallCount ==
    pc = "run_done" =>
        /\ llm_stats # NoStats
        /\ llm_stats.request_count = Len(api_calls)

\* C21: a run with --no-llm (enable_llm = FALSE) makes no external call and
\* does not end with an error: once the mechanical detection is done it goes
\* on to reconciliation and the reports, never to the raised RuntimeError.
C21_NoLlmRunEndsWithSummary ==
    ~enable_llm =>
        /\ api_calls = <<>>
        /\ pc # "run_raised"

----------------------------------------------------------------------------
(* _parse_cell_batch_response on bounded batches and responses *)

MaxParseItems == 2

\* objects for the first cell with every kind, canonical, confidence around
\* the threshold and a fix equal or not to the original; objects whose index
\* is 0, 2 or 3; elements the loop body cannot read
ParsePool ==
    {Item(1, t, KANRI, f, c, conf) :
        t \in {"typo", "variant", "none"}, f \in {KANRI, RIKAN},
        c \in {None, <<>>, RIKAN}, conf \in {69, 70}}
    \cup {Item(i, "typo", KANRI, RIKAN, None, 80) : i \in {0, 2, 3}}
    \cup {RawItem(1, "typo", KANRI, RIKAN, None, x) :
             x \in {JStr(<<"h">>), JStr(<<"0", ".", "8">>), JNull}}
    \cup {NotAnObject}

ParseResponses ==
    {NoJson, BadJson, NotIterable}
    \cup {JsonItems(items) : items \in SeqsUpTo(ParsePool, MaxParseItems)}

ParseInit ==
    /\ pc = "parse"
    /\ batch \in Batches
    /\ response \in ParseResponses
    /\ MergeIdle
    /\ DetectIdle
    /\ ReviewIdle
    /\ RunIdle

ParseNext == ParseCellBatchResponse

SpecParse == ParseInit /\ [][ParseNext]_vars

\* the four conditions on an item of the response, for the batch cs
Qualifies(item, cs) ==
    /\ "scalar" \notin DOMAIN item
    /\ item.issue_type \in {"typo", "variant"}
    /\ FloatError(item.confidence) = "none"
    /\ Float(item.confidence) >= 70
    /\ item.item_index \in 1..Len(cs)
    /\ item.suggested_fix # item.original

\* the items of the response that satisfy the four conditions, in order
QualifiedItems ==
    LET Q(item) == Qualifies(item, batch)
    IN  SelectSeq(response.items, Q)

\* the findings are, in order, those of the qualified items, each with the
\* batch cell at the index of its item
FindingsOfQualified ==
    /\ Len(llm_results) = Len(QualifiedItems)
    /\ \A k \in DOMAIN llm_results :
          /\ llm_results[k].source_detection.cell_data
                = batch[QualifiedItems[k].item_index]
          /\ llm_results[k].original = QualifiedItems[k].original
          /\ llm_results[k].suggested_fix = QualifiedItems[k].suggested_fix

\* no element of the decoded list makes the loop body raise
NoItemRaises == \A i \in DOMAIN response.items : ItemError(response.items[i]) = "none"

C23_CanonicalForcesVariant ==
    (pc = "merge_mech" /\ response.kind = "items" /\ llm_results # <<>>) =>
        /\ Len(llm_results) = Len(QualifiedItems)
        /\ \A k \in DOMAIN llm_results :
              llm_results[k].issue_type =
                  IF QualifiedItems[k].canonical \notin {None, <<>>}
                  THEN "variant" ELSE QualifiedItems[k].issue_type

\* a typo with a canonical is kept as a variant, a typo with an empty
\* canonical as a typo
C23_Witness ==
    /\ pc = "merge_mech"
    /\ response.kind = "items"
    /\ Len(response.items) = 2
    /\ NoItemRaises
    /\ response.items[1].issue_type = "typo"
    /\ response.items[1].canonical = RIKAN
    /\ response.items[2].issue_type = "typo"
    /\ response.items[2].canonical = <<>>
    /\ Len(llm_results) = 2
    /\ llm_results[1].issue_type = "variant"
    /\ llm_results[2].issue_type = "typo"

----------------------------------------------------------------------------
(* The dictionary lookup of _get_canonical_form *)

\* the lookup keys of a rule: its expected form and its patterns
RuleKeys(rule) == {rule.expected} \cup Range(rule.patterns)

\* the canonicals of the rules one of whose keys is s
ExactCanonicals(s) ==
    {rule.expected : rule \in {r \in Range(dictionary.rules) : s \in RuleKeys(r)}}

\* the canonicals of the rules one of whose keys is s up to the case of
\* the ASCII letters
CaselessCanonicals(s) ==
    {rule.expected :
        rule \in {r \in Range(dictionary.rules) :
                     \E k \in RuleKeys(r) : Lower(k) = Lower(s)}}

\* the canonical of the group of term with the spellings variant_list is
\* one the priority of the three cases allows; a term_key that matches only
\* up to case may count as matching or not
CanonicalByPriority(canonical, term, variant_list) ==
    LET ofVariants == UNION {CaselessCanonicals(v) : v \in Range(variant_list)}
    IN  IF ofVariants # {} THEN canonical \in ofVariants
        ELSE IF ExactCanonicals(term) # {} THEN canonical \in ExactCanonicals(term)
        ELSE canonical \in CaselessCanonicals(term) \cup {None}

\* C24: for a term_key with two or more distinct spellings the canonical of
\* its group is the one mapped to a spelling that matches a dictionary key,
\* exactly or up to ASCII case; otherwise the one mapped to the term_key if
\* the term_key matches a dictionary key; otherwise none.
C24_CanonicalPriority ==
    pc \in {"generate", "detect_done"} =>
        \A t \in DOMAIN inconsistencies :
            CanonicalByPriority(inconsistencies[t].value.canonical,
                                inconsistencies[t].key,
                                MapKeys(inconsistencies[t].value.variants))

\* C25: once the rules are loaded, the expected form and every pattern of
\* every dictionary rule are keys of the rule map under their own spelling,
\* and the map gives the expected form of that rule for each of them.
C25_ExactCaseKeys ==
    (pc # "detector_new" /\ dictionary.exists) =>
        \A r \in DOMAIN dictionary.rules :
            \A k \in RuleKeys(dictionary.rules[r]) :
                /\ HasKey(canonical_rules, k)
                /\ MapGet(canonical_rules, k) = dictionary.rules[r].expected

----------------------------------------------------------------------------
(* The terms of a cell text, seen in the occurrences of a corpus all of
   whose cells hold that text *)

\* the maximal runs of characters of class in text that start at position
\* i or later and have two characters or more, from left to right
RECURSIVE RunsFrom(_, _, _)
RunsFrom(text, class, i) ==
    IF i > Len(text) THEN <<>>
    ELSE IF text[i] \in class /\ (i = 1 \/ text[i - 1] \notin class)
         THEN LET j == CHOOSE e \in i..Len(text) :
                          /\ \A k \in i..e : text[k] \in class
                          /\ (e = Len(text) \/ text[e + 1] \notin class)
              IN  (IF j - i + 1 >= 2 THEN <<SubSeq(text, i, j)>> ELSE <<>>)
                  \o RunsFrom(text, class, j + 1)
         ELSE RunsFrom(text, class, i + 1)

\* the allowed set as the claim lists it
AllowedAsStated ==
    Hiragana \cup Katakana \cup HalfKatakana \cup Kanji \cup LowerLatin
        \cup UpperLatin \cup Digits \cup {Nakaguro, "-", Chouon}

\* the trimmed text if all its characters are allowed, then the runs of
\* each class
TermsOf(text, allowed) ==
    (IF Strip(text) # <<>> /\ Range(Strip(text)) \subseteq allowed
     THEN <<Strip(text)>> ELSE <<>>)
    \o Flatten([k \in DOMAIN ComponentClasses |->
                   RunsFrom(text, ComponentClasses[k], 1)])

RECURSIVE Distinct(_)
Distinct(s) ==
    IF s = <<>> THEN <<>>
    ELSE <<Head(s)>> \o Distinct(SelectSeq(Tail(s), LAMBDA x : x # Head(s)))

\* every cell of the corpus holds the same text, and there are two or more
SameTextCorpus ==
    /\ Len(cells) >= 2
    /\ \A i \in DOMAIN cells : cells[i].text = cells[1].text

\* the keys of the occurrence map are the terms of the text, in order, and
\* each term has as many occurrences in every cell as the sequence has it
OccurrencesShowTerms(allowed) ==
    LET terms == SelectSeq(TermsOf(cells[1].text, allowed),
                           LAMBDA t : Len(Strip(t)) >= 2)
    IN  /\ MapKeys(term_occurrences) = Distinct(terms)
        /\ \A e \in DOMAIN term_occurrences :
              Len(term_occurrences[e].value)
                = Len(cells) * Len(SelectSeq(terms, LAMBDA t : t = term_occurrences[e].key))

\* C26 as stated: the terms of a text are the trimmed text, if all its
\* characters are hiragana, katakana, half-width katakana, ideographs, latin
\* letters, digits, middle dot, hyphen or long-vowel mark, followed by the
\* runs of two or more characters of each of the five classes in source
\* order; the same for every cell with that text.
C26_TermsAsStated ==
    (pc \in {"detect", "generate", "detect_done"} /\ SameTextCorpus)
        => OccurrencesShowTerms(AllowedAsStated)

\* C26 amended: the same with the underscore in the allowed set
C26_TermsWithUnderscore ==
    (pc \in {"detect", "generate", "detect_done"} /\ SameTextCorpus)
        => OccurrencesShowTerms(AllowedAsStated \cup {"_"})

\* a text that is a term as a whole and has two components
C26_Witness ==
    /\ pc = "detect"
    /\ SameTextCorpus
    /\ cells[1].text = YUUZA \o KANRI
    /\ MapKeys(term_occurrences) = <<YUUZA \o KANRI, YUUZA, KANRI>>

----------------------------------------------------------------------------
(* The occurrence map of a corpus *)

\* the candidates of one cell: its extracted terms of two characters or
\* more, each at the place of the cell
CellCandidates(cell) ==
    LET terms == SelectSeq(extract_terms(cell.text), LAMBDA t : Len(t) >= 2)
    IN  [k \in DOMAIN terms |-> TermOccurrence(cell, terms[k])]

\* the candidates of the corpus, in cell order
Candidates == Flatten([i \in DOMAIN cells |-> CellCandidates(cells[i])])

CandidatesOf(term) == SelectSeq(Candidates, LAMBDA o : o.original_text = term)

\* C27: in the occurrence map every key has two occurrences or more, every
\* candidate term extracted twice or more over the corpus is a key, and the
\* list of a key holds one entry per extracted candidate, in cell order.
C27_KeysHaveTwoOccurrences ==
    pc \in {"detect", "generate", "detect_done"} =>
        /\ \A e \in DOMAIN term_occurrences :
              /\ Len(term_occurrences[e].value) >= 2
              /\ term_occurrences[e].value = CandidatesOf(term_occurrences[e].key)
        /\ \A c \in DOMAIN Candidates :
              Len(CandidatesOf(Candidates[c].original_text)) >= 2
                  => HasKey(term_occurrences, Candidates[c].original_text)

\* a term extracted from two cells is a key, a term extracted once is not
C27_Witness ==
    /\ pc = "detect"
    /\ Len(cells) = 2
    /\ cells[1].text = YUUZA \o KANRI
    /\ cells[2].text = YUUZA
    /\ MapKeys(term_occurrences) = <<YUUZA>>
    /\ Len(term_occurrences[1].value) = 3
    /\ term_occurrences[1].value[1].file_name = <<"docA">>
    /\ term_occurrences[1].value[3].file_name = <<"docB">>

----------------------------------------------------------------------------
(* The findings of a review, sheet group by sheet group *)

\* the valid cells of the (document_id, sheet_id) group g, in corpus order
CellsOfGroup(g) ==
    SelectSeq(cells, LAMBDA c : IsValidCell(c) /\ <<c.file_name, c.sheet_name>> = g)

\* the findings of the review that refer to a cell of group g
FindingsIn(g) ==
    {f \in Range(all_responses) :
        <<f.source_detection.cell_data.file_name,
          f.source_detection.cell_data.sheet_name>> = g}

\* what the service answered for group g: a text, or CallRaised
AnswerFor(g) == call_returns[CHOOSE i \in CallsFor(g) : TRUE]

\* the findings the cells of group g and the answer for g determine
FindingsFor(g) ==
    IF AnswerFor(g) = CallRaised THEN {}
    ELSE Range(call_result(AnswerFor(g), CellsOfGroup(g)))

----------------------------------------------------------------------------
(* Two model findings under one key *)

\* the keys of the two streams in the order the reconciler meets them
StreamKeys ==
    [i \in DOMAIN mechanical_results |-> create_mechanical_key(mechanical_results[i])]
    \o [i \in DOMAIN llm_results |-> create_llm_key(llm_results[i])]

\* the model findings stored under key are exactly those at i and j
OnlyPairAt(key, i, j) ==
    /\ i < j
    /\ {k \in DOMAIN llm_results : create_llm_key(llm_results[k]) = key} = {i, j}
    /\ \A m \in DOMAIN mechanical_results :
          create_mechanical_key(mechanical_results[m]) # key

====
